---- MODULE Spec2Model ----
(***************************************************************************)
(* A model of the swe-grep search engine (crates/swe-grep-core):           *)
(*   - the tool adapters (tools/fd.rs, tools/rg.rs, tools/rga.rs,          *)
(*     tools/ast_grep.rs) and the ChildGuard of tools/common.rs, as one    *)
(*     adapter call with its child process (specification SpecAdapter);    *)
(*   - SearchEngine::run_cycle of search.rs, stage by stage (Spec).        *)
(***************************************************************************)
EXTENDS Integers, Sequences, FiniteSets, TLC

VARIABLES
    \* ---- one adapter call and its child process (SpecAdapter) ----
    adapter,      \* which tool the call runs: "fd", "rg", "rga", "ast-grep"
    apc,          \* position of the call: idle, read, wait, output, ended
    proc,         \* the child process: none, running, exited
    status,       \* exit status of the child once exited
    toWrite,      \* stdout lines the child has still to write
    pipe,         \* lines sitting in the stdout pipe
    guard,        \* ChildGuard.child is Some
    killed,       \* start_kill has been called on the child
    matches,      \* number of items collected so far
    cap,          \* the adapter's max_matches (fd: none enforced in the loop)
    ret,          \* how the call ended: none, ok, err, timeout, cancelled
    orphan,       \* the call ended leaving a running child that got no kill
    \* ---- one engine and its run_cycle (Spec) ----
    config,              \* SearchConfig
    tree,                \* what the tools find in the repository
    pc,                  \* position of run_cycle
    fast,                \* the cycle took the fast path
    hits,                \* Vec<SearchHit> of the cycle
    discover_candidates, \* result of discover()
    ast_matches,         \* result of disambiguate()
    stage_stats,         \* StageStats
    calls,               \* tool invocations of the cycle, in order
    last_call,           \* the stage that stepped last and its adapter results
    invoked,             \* the adapter invocations of the cycle and how each ended
    dedup_cache,         \* SearchCache.seen
    state,               \* PersistentState: data and dirty flag
    disk,                \* content of <cache_dir>/state.json
    verification,        \* VerificationOutcome
    summary,             \* the SearchSummary built by the cycle
    result,              \* what run_cycle returned: none, ok, err
    log,                 \* records of <log_dir>/search.log.jsonl
    \* ---- calls that follow the first (SpecReuse, SpecExecute) ----
    earlier,             \* what the cycles that ended before this one retained and returned
    \* ---- the hint store called on its own (SpecStore) ----
    order,               \* the order this instance's directory_scores map iterates in
    ops,                 \* the last calls on the store, each with the store before it
    observed,            \* number of observe calls so far
    \* ---- engines of one cache directory saving at once (SpecSave) ----
    savers,              \* each engine's position in save(), its open file and offset
    fsys,                \* the cache directory: names, and the files they name
    \* ---- the adapter calls of one cycle, one after the other (SpecStages) ----
    stderr,              \* what the child wrote to stderr: its lines
    message,             \* what the adapter made of the exit status
    stray,               \* children of earlier calls of the cycle that still run
    stageNo,             \* number of adapter calls of the cycle that have ended
    \* ---- one search_identifier call, pattern by pattern (SpecPatterns) ----
    astcall,
    \* ---- one request to the service (SpecService) ----
    request,
    \* ---- one call of a function, its arguments and its result ----
    fcall

avars == <<adapter, apc, proc, status, toWrite, pipe, guard, killed, matches,
           cap, ret, orphan>>

cvars == <<config, tree, pc, fast, hits, discover_candidates, ast_matches,
           stage_stats, calls, last_call, invoked, dedup_cache, state, disk,
           verification, summary, result, log>>

pvars == <<stderr, message, stray, stageNo>>

rvars == <<astcall, request, fcall>>

qvars == <<earlier, order, ops, observed, savers, fsys, rvars>>

xvars == <<earlier, order, ops, observed, savers, fsys, pvars, rvars>>

vars == <<avars, cvars, xvars>>

(***************************************************************************)
(* Bounds of the adapter model.                                            *)
(***************************************************************************)
MaxOut == 3        \* most stdout lines a child writes
PipeCap == 1       \* lines the stdout pipe buffers before the child blocks
MaxCap == 2        \* largest max_matches tried

MaxStages == 2     \* adapter calls of a cycle that are followed by another

Guarded == {"fd", "rg", "rga"}

\* The order of the tool calls in run_cycle: rg (fast path), fd (discover),
\* rg (probe), rg (escalate, index), rga, ast-grep (disambiguate).
StageOrder ==
    {<<"rg", "fd">>, <<"fd", "rg">>, <<"rg", "rg">>, <<"rg", "rga">>,
     <<"rg", "ast-grep">>, <<"rga", "ast-grep">>}
Follows(t) ==
    \/ stageNo = 0
    \/ <<adapter, t>> \in StageOrder /\ (t = "fd" => stageNo = 1)

\* Lines a child writes to stderr: a short one, one longer than any limit,
\* and ast-grep's diagnostic for a pattern it cannot parse.
PlainLine == [len |-> 80, error_node |-> FALSE]
HugeLine == [len |-> 4096, error_node |-> FALSE]
DiagLine == [len |-> 40, error_node |-> TRUE]
StderrOutputs == {<<>>, <<PlainLine>>, <<PlainLine, HugeLine, PlainLine>>, <<DiagLine>>}

StderrLimit == 1024
MarkerLen == 16    \* "\n... (truncated)"

\* The stderr_output the adapters of fd, rg and rga build: lines are added
\* whole, joined by newlines, until the text is longer than the limit.
RECURSIVE Capture(_, _)
Capture(lines, len) ==
    IF lines = <<>> THEN len
    ELSE LET n == len + (IF len > 0 THEN 1 ELSE 0) + Head(lines).len
         IN IF n > StderrLimit THEN n + MarkerLen ELSE Capture(Tail(lines), n)

NoMessage == [kind |-> "none", stderr_len |-> 0]

\* The result of fd.rs, rg.rs, rga.rs once child.wait() has the status
ExitPolicy(st, err) ==
    IF st \in {0, 1} THEN [ret |-> "ok", message |-> [kind |-> "success", stderr_len |-> 0]]
    ELSE [ret |-> "err", message |-> [kind |-> "status", stderr_len |-> Capture(err, 0)]]

\* The result of ast_grep.rs run_pattern once cmd.output() has returned: a
\* diagnostic line in stderr is a pattern error whatever the status; any
\* other failure names the status only.
OutputPolicy(st, err) ==
    IF \E i \in DOMAIN err : err[i].error_node
    THEN LET i == CHOOSE i \in DOMAIN err : err[i].error_node
         IN [ret |-> "err", message |-> [kind |-> "pattern", stderr_len |-> err[i].len]]
    ELSE IF st \notin {0, 1}
         THEN [ret |-> "err", message |-> [kind |-> "status", stderr_len |-> 0]]
         ELSE [ret |-> "ok", message |-> [kind |-> "success", stderr_len |-> 0]]

(***************************************************************************)
(* tools/common.rs: Drop for ChildGuard. The guard kills the child only    *)
(* while it still holds it; after take() the drop does nothing.            *)
(***************************************************************************)
GuardDropKills(g) == g

(***************************************************************************)
(* What happens to the child when the call's locals are dropped (the       *)
(* function returns or its future is dropped): the guard's drop runs; a    *)
(* tokio Child owned by the collect block, or by Command::output, is       *)
(* dropped without a kill (kill_on_drop is never set).                     *)
(***************************************************************************)
DropLocals ==
    /\ killed' = (killed \/ GuardDropKills(guard))
    /\ guard' = FALSE
    /\ orphan' = (proc = "running" /\ ~(killed \/ GuardDropKills(guard)))

AdapterIdle ==
    /\ earlier = <<>>
    /\ order = <<>>
    /\ ops = <<>>
    /\ observed = 0
    /\ savers = [e \in {"a", "b"} |-> [pc |-> "idle", fd |-> 0, off |-> 0, len |-> 0]]
    /\ fsys = [tmp |-> 0, json |-> 0, inodes |-> <<>>, last |-> "none"]
    /\ stderr = <<>>
    /\ message = NoMessage
    /\ stray = 0
    /\ stageNo = 0
    /\ astcall = [pc |-> "idle"]
    /\ request = [pc |-> "idle"]
    /\ fcall = [pc |-> "idle"]
    /\ adapter = "rg"
    /\ apc = "idle"
    /\ proc = "none"
    /\ status = 0
    /\ toWrite = 0
    /\ pipe = 0
    /\ guard = FALSE
    /\ killed = FALSE
    /\ matches = 0
    /\ cap = 1
    /\ ret = "none"
    /\ orphan = FALSE

(***************************************************************************)
(* cmd.spawn() of fd.rs, rg.rs, rga.rs, followed by ChildGuard::new; a     *)
(* spawn failure returns the error at once.                                *)
(***************************************************************************)
Spawn ==
    /\ apc = "idle"
    /\ \E t \in Guarded, c \in 1..MaxCap, n \in 0..MaxOut, ok \in BOOLEAN :
         /\ Follows(t)
         /\ adapter' = t
         /\ cap' = c
         /\ IF ok
            THEN /\ proc' = "running"
                 /\ toWrite' = n
                 /\ guard' = TRUE
                 /\ apc' = "read"
                 /\ ret' = "none"
            ELSE /\ proc' = "none"
                 /\ toWrite' = 0
                 /\ guard' = FALSE
                 /\ apc' = "ended"
                 /\ ret' = "err"
    /\ UNCHANGED <<status, pipe, killed, matches, orphan>>
    /\ UNCHANGED <<cvars, xvars>>

(***************************************************************************)
(* ast_grep.rs run_pattern: cmd.output() spawns the child inside the       *)
(* collect block; no ChildGuard is involved.                               *)
(***************************************************************************)
SpawnOutput ==
    /\ apc = "idle"
    /\ \E c \in 1..MaxCap, n \in 0..MaxOut, ok \in BOOLEAN :
         /\ Follows("ast-grep")
         /\ adapter' = "ast-grep"
         /\ cap' = c
         /\ IF ok
            THEN /\ proc' = "running"
                 /\ toWrite' = n
                 /\ apc' = "output"
                 /\ ret' = "none"
            ELSE /\ proc' = "none"
                 /\ toWrite' = 0
                 /\ apc' = "ended"
                 /\ ret' = "err"
    /\ UNCHANGED <<status, pipe, guard, killed, matches, orphan>>
    /\ UNCHANGED <<cvars, xvars>>

(***************************************************************************)
(* The child process: it writes a line when the pipe has room, exits when  *)
(* it has written everything, and dies when it has been sent a kill.       *)
(***************************************************************************)
ChildWrite ==
    /\ proc = "running"
    /\ ~killed
    /\ toWrite > 0
    /\ pipe < PipeCap
    /\ apc # "ended"
    /\ toWrite' = toWrite - 1
    /\ pipe' = pipe + 1
    /\ UNCHANGED <<adapter, apc, proc, status, guard, killed, matches, cap, ret, orphan>>
    /\ UNCHANGED <<cvars, xvars>>

ChildExit ==
    /\ proc = "running"
    /\ ~killed
    /\ toWrite = 0
    /\ proc' = "exited"
    /\ \E s \in {0, 1, 2} : status' = s
    /\ \E err \in StderrOutputs :
         /\ (\E i \in DOMAIN err : err[i].error_node) => adapter = "ast-grep"
         /\ stderr' = err
    /\ UNCHANGED <<adapter, apc, toWrite, pipe, guard, killed, matches, cap, ret, orphan>>
    /\ UNCHANGED <<cvars, qvars, message, stray, stageNo>>

ChildKilled ==
    /\ proc = "running"
    /\ killed
    /\ proc' = "exited"
    /\ status' = 9
    /\ UNCHANGED <<adapter, apc, toWrite, pipe, guard, killed, matches, cap, ret, orphan>>
    /\ UNCHANGED <<cvars, xvars>>

(***************************************************************************)
(* The read loop of the collect block. rg and rga break, before parsing    *)
(* the line just read, once max_matches items are held; fd pushes every    *)
(* non-blank line. Leaving the loop takes the child out of the guard and   *)
(* awaits child.wait().                                                    *)
(***************************************************************************)
ReadLine ==
    /\ apc = "read"
    /\ pipe > 0
    /\ pipe' = pipe - 1
    /\ IF adapter \in {"rg", "rga"} /\ matches >= cap
       THEN /\ guard' = FALSE
            /\ apc' = "wait"
            /\ matches' = matches
       ELSE /\ \E keep \in BOOLEAN : matches' = IF keep THEN matches + 1 ELSE matches
            /\ UNCHANGED <<guard, apc>>
    /\ UNCHANGED <<adapter, proc, status, toWrite, killed, cap, ret, orphan>>
    /\ UNCHANGED <<cvars, xvars>>

ReadEof ==
    /\ apc = "read"
    /\ pipe = 0
    /\ proc = "exited"
    /\ guard' = FALSE
    /\ apc' = "wait"
    /\ UNCHANGED <<adapter, proc, status, toWrite, pipe, killed, matches, cap, ret, orphan>>
    /\ UNCHANGED <<cvars, xvars>>

\* reader.next_line().await? fails: collect returns the error, the function returns.
ReadError ==
    /\ apc = "read"
    /\ apc' = "ended"
    /\ ret' = "err"
    /\ DropLocals
    /\ UNCHANGED <<adapter, proc, status, toWrite, pipe, matches, cap>>
    /\ UNCHANGED <<cvars, xvars>>

(***************************************************************************)
(* child.wait() completes: status 0 or 1 is a success, anything else an    *)
(* error (after stderr has been read).                                     *)
(***************************************************************************)
WaitDone ==
    /\ apc = "wait"
    /\ proc = "exited"
    /\ apc' = "ended"
    /\ ret' = ExitPolicy(status, stderr).ret
    /\ message' = ExitPolicy(status, stderr).message
    /\ DropLocals
    /\ UNCHANGED <<adapter, proc, status, toWrite, pipe, matches, cap>>
    /\ UNCHANGED <<cvars, qvars, stderr, stray, stageNo>>

(***************************************************************************)
(* ast_grep.rs: Command::output reads the pipes to their end and waits for *)
(* the child.                                                              *)
(***************************************************************************)
OutputDrain ==
    /\ apc = "output"
    /\ pipe > 0
    /\ pipe' = pipe - 1
    /\ matches' = IF matches < cap THEN matches + 1 ELSE matches
    /\ UNCHANGED <<adapter, apc, proc, status, toWrite, guard, killed, cap, ret, orphan>>
    /\ UNCHANGED <<cvars, xvars>>

OutputDone ==
    /\ apc = "output"
    /\ pipe = 0
    /\ proc = "exited"
    /\ apc' = "ended"
    /\ ret' = OutputPolicy(status, stderr).ret
    /\ message' = OutputPolicy(status, stderr).message
    /\ DropLocals
    /\ UNCHANGED <<adapter, proc, status, toWrite, pipe, matches, cap>>
    /\ UNCHANGED <<cvars, qvars, stderr, stray, stageNo>>

(***************************************************************************)
(* timeout(self.timeout, collect): the deadline expires while collect is   *)
(* suspended at one of its await points; collect is dropped and the        *)
(* function returns the timeout error.                                     *)
(***************************************************************************)
Timeout ==
    /\ apc \in {"read", "wait", "output"}
    /\ apc' = "ended"
    /\ ret' = "timeout"
    /\ DropLocals
    /\ UNCHANGED <<adapter, proc, status, toWrite, pipe, matches, cap>>
    /\ UNCHANGED <<cvars, xvars>>

\* The caller drops the adapter's future at one of its await points.
Cancel ==
    /\ apc \in {"read", "wait", "output"}
    /\ apc' = "ended"
    /\ ret' = "cancelled"
    /\ DropLocals
    /\ UNCHANGED <<adapter, proc, status, toWrite, pipe, matches, cap>>
    /\ UNCHANGED <<cvars, xvars>>

AdapterNext ==
    \/ Spawn
    \/ SpawnOutput
    \/ ChildWrite
    \/ ChildExit
    \/ ChildKilled
    \/ ReadLine
    \/ ReadEof
    \/ ReadError
    \/ WaitDone
    \/ OutputDrain
    \/ OutputDone
    \/ Timeout
    \/ Cancel

(***************************************************************************)
(* run_cycle goes on after an adapter call has returned: the next stage    *)
(* makes its own call. A child the ended call left running is no longer    *)
(* anybody's; it ends when it ends.                                        *)
(***************************************************************************)
NextStage ==
    /\ apc = "ended"
    /\ ret # "cancelled"
    /\ adapter # "ast-grep"
    /\ stageNo < MaxStages
    /\ stageNo' = stageNo + 1
    /\ stray' = stray + (IF orphan THEN 1 ELSE 0)
    /\ apc' = "idle"
    /\ proc' = "none"
    /\ status' = 0
    /\ toWrite' = 0
    /\ pipe' = 0
    /\ guard' = FALSE
    /\ killed' = FALSE
    /\ matches' = 0
    /\ ret' = "none"
    /\ orphan' = FALSE
    /\ stderr' = <<>>
    /\ message' = NoMessage
    /\ UNCHANGED <<adapter, cap, cvars, qvars>>

StrayExit ==
    /\ stray > 0
    /\ stray' = stray - 1
    /\ UNCHANGED <<avars, cvars, qvars, stderr, message, stageNo>>

StagesNext == AdapterNext \/ NextStage \/ StrayExit


(***************************************************************************)
(*                     The engine: search.rs                               *)
(***************************************************************************)

(***************************************************************************)
(* Bounds of the engine model.                                             *)
(***************************************************************************)
MaxRaw == 2        \* most match lines ripgrep finds in the tree
MaxLine == 2       \* largest line number of a match

\* ---- sequences ----
Min(a, b) == IF a <= b THEN a ELSE b
Take(s, n) == SubSeq(s, 1, Min(n, Len(s)))
Range(s) == {s[i] : i \in DOMAIN s}
Contains(s, x) == \E i \in DOMAIN s : s[i] = x
Map(s, Op(_)) == [i \in DOMAIN s |-> Op(s[i])]

\* Keep the first occurrence of every element (a Vec guarded by a HashSet).
RECURSIVE DedupSeq(_)
DedupSeq(s) ==
    IF s = <<>> THEN <<>>
    ELSE LET front == DedupSeq(SubSeq(s, 1, Len(s) - 1))
             x == s[Len(s)]
         IN IF Contains(front, x) THEN front ELSE Append(front, x)

\* All orderings of a finite set, as sequences.
RECURSIVE Orderings(_)
Orderings(S) ==
    IF S = {} THEN {<<>>}
    ELSE UNION {{<<x>> \o rest : rest \in Orderings(S \ {x})} : x \in S}

\* ---- characters; a string the code takes apart is a sequence of them ----
LowerSeq == <<"a","b","c","d","e","f","g","h","i","j","k","l","m",
              "n","o","p","q","r","s","t","u","v","w","x","y","z">>
UpperSeq == <<"A","B","C","D","E","F","G","H","I","J","K","L","M",
              "N","O","P","Q","R","S","T","U","V","W","X","Y","Z">>
Digits == {"0","1","2","3","4","5","6","7","8","9"}
Whitespace == {" ", "\t", "\n"}
IsAsciiAlphanumeric(c) == c \in Range(LowerSeq) \cup Range(UpperSeq) \cup Digits

\* str::trim
RECURSIVE TrimStart(_)
TrimStart(s) ==
    IF s # <<>> /\ Head(s) \in Whitespace THEN TrimStart(Tail(s)) ELSE s
RECURSIVE TrimEnd(_)
TrimEnd(s) ==
    IF s # <<>> /\ s[Len(s)] \in Whitespace
    THEN TrimEnd(SubSeq(s, 1, Len(s) - 1)) ELSE s
Trim(s) == TrimEnd(TrimStart(s))

\* SearchEngine::is_literal_symbol
is_literal_symbol(symbol) ==
    LET s == Trim(symbol)
    IN s # <<>> /\ \A i \in DOMAIN s : IsAsciiAlphanumeric(s[i]) \/ s[i] = "_"

\* Variant: '|' is left as it is.
RECURSIVE escape_literal_but_pipe(_)
escape_literal_but_pipe(value) ==
    IF value = <<>> THEN <<>>
    ELSE (IF Head(value) \in {"\\", ".", "+", "*", "?", "^", "$", "(", ")", "[", "]", "{", "}"}
          THEN <<"\\", Head(value)>> ELSE <<Head(value)>>)
         \o escape_literal_but_pipe(Tail(value))

\* QueryRewriter::escape_literal
Metacharacters == {"\\", ".", "+", "*", "?", "^", "$", "(", ")", "[", "]", "{", "}", "|"}
RECURSIVE escape_literal(_)
escape_literal(value) ==
    IF value = <<>> THEN <<>>
    ELSE (IF Head(value) \in Metacharacters THEN <<"\\", Head(value)>> ELSE <<Head(value)>>)
         \o escape_literal(Tail(value))

\* capitalize: the first character to ASCII upper case
ToAsciiUppercase(c) ==
    IF \E i \in DOMAIN LowerSeq : LowerSeq[i] = c
    THEN UpperSeq[CHOOSE i \in DOMAIN LowerSeq : LowerSeq[i] = c]
    ELSE c
capitalize(segment) ==
    IF segment = <<>> THEN <<>>
    ELSE <<ToAsciiUppercase(Head(segment))>> \o Tail(segment)

\* The part after the last of ':', '_', '.' (rsplit(..).next()).
RECURSIVE LastSegment(_)
LastSegment(s) ==
    IF s = <<>> THEN <<>>
    ELSE IF s[Len(s)] \in {":", "_", "."} THEN <<>>
    ELSE Append(LastSegment(SubSeq(s, 1, Len(s) - 1)), s[Len(s)])

\* QueryRewriter::derive_type_hint
derive_type_hint(symbol) ==
    LET s == Trim(symbol)
        uppers == {i \in DOMAIN s : s[i] \in Range(UpperSeq)}
    IN IF s = <<>> THEN <<"v","a","l","u","e">>
       ELSE IF Contains(s, "_") THEN capitalize(LastSegment(s))
       ELSE IF uppers # {}
            THEN SubSeq(s, CHOOSE i \in uppers : \A j \in uppers : j <= i, Len(s))
       ELSE capitalize(s)

\* QueryRewriter::build_rust_variants
build_rust_variants(s) ==
    IF s = <<>> THEN <<>>
    ELSE << escape_literal(<<"f","n"," ">> \o s),
            escape_literal(<<"i","m","p","l"," ">> \o s),
            escape_literal(<<"t","r","a","i","t"," ">> \o s),
            escape_literal(<<"p","u","b","(","c","r","a","t","e",")"," ">> \o s),
            escape_literal(s \o <<":",":","<">>),
            escape_literal(<<":",":">> \o s),
            escape_literal(<<"m","a","c","r","o","_","r","u","l","e","s","!"," ">> \o s) >>

\* QueryRewriter::build_typescript_variants
StartsUpper(s) == s # <<>> /\ Head(s) \in Range(UpperSeq)
build_typescript_variants(s) ==
    LET is_hook == Len(s) > 3 /\ SubSeq(s, 1, 3) = <<"u","s","e">>
        main == << escape_literal(s \o <<"<">>),
                escape_literal(s \o <<" ","<">>),
                escape_literal(<<"<">> \o s),
                escape_literal(<<"<","/">> \o s),
                escape_literal(s \o <<" ","e","x","t","e","n","d","s">>),
                escape_literal(<<"t","y","p","e"," ">> \o s),
                escape_literal(<<"i","n","t","e","r","f","a","c","e"," ">> \o s),
                escape_literal(<<"c","o","n","s","t"," ">> \o s),
                escape_literal(<<"e","x","p","o","r","t"," ","c","o","n","s","t"," ">> \o s),
                escape_literal(<<"f","u","n","c","t","i","o","n"," ">> \o s),
                escape_literal(<<"e","x","p","o","r","t"," ","f","u","n","c","t","i","o","n"," ">> \o s),
                escape_literal(s \o <<"(">>),
                escape_literal(s \o <<" ","s","a","t","i","s","f","i","e","s">>),
                escape_literal(<<"n","a","m","e","s","p","a","c","e"," ">> \o s),
                escape_literal(<<"e","x","p","o","r","t"," ","d","e","f","a","u","l","t"," ">> \o s),
                escape_literal(s \o <<" ","p","r","o","p","s">>),
                escape_literal(s \o <<":">>) >>
        hook == << escape_literal(s \o <<"(">>),
                escape_literal(s \o <<"<","{">>) >>
        upper == << escape_literal(<<"<">> \o s \o <<" ">>),
                 escape_literal(<<"<">> \o s \o <<" ","/",">">>),
                 escape_literal(s \o <<"P","r","o","p","s">>),
                 escape_literal(s \o <<"C","o","m","p","o","n","e","n","t">>) >>
        component == << escape_literal(<<"<">> \o s \o <<" ","{",".",".",".">>),
                     escape_literal(<<"R","e","a","c","t",".","m","e","m","o","(">> \o s),
                     escape_literal(<<"R","e","a","c","t",".","f","o","r","w","a","r","d","R","e","f","(">> \o s) >>
    IN IF s = <<>> THEN <<>>
       ELSE main \o (IF is_hook THEN hook ELSE <<>>)
                 \o (IF StartsUpper(s) THEN upper \o component ELSE <<>>)

\* QueryRewriter::build_swift_variants
build_swift_variants(s) ==
    LET main == << escape_literal(<<"f","u","n","c"," ">> \o s),
                escape_literal(<<"f","u","n","c"," ">> \o s \o <<"(">>),
                escape_literal(<<"f","u","n","c"," ">> \o s \o <<"<">>),
                escape_literal(s \o <<" ","a","s","y","n","c">>),
                escape_literal(<<"@","M","a","i","n","A","c","t","o","r"," ","f","u","n","c"," ">> \o s),
                escape_literal(s \o <<"(">>),
                escape_literal(<<".">> \o s),
                escape_literal(<<"s","e","l","f",".">> \o s),
                escape_literal(<<"a","w","a","i","t"," ">> \o s) >>
        type_like == << escape_literal(<<"@">> \o s),
                     escape_literal(<<":"," ">> \o s),
                     escape_literal(<<"e","x","t","e","n","s","i","o","n"," ">> \o s),
                     escape_literal(<<"w","h","e","r","e"," ">> \o s) >>
    IN IF s = <<>> THEN <<>>
       ELSE main \o (IF StartsUpper(s) THEN type_like ELSE <<>>)

\* The loop of build over the language tokens
RECURSIVE language_variants(_, _)
language_variants(languages, s) ==
    IF languages = <<>> THEN <<>>
    ELSE (CASE Head(languages) \in {"typescript", "ts", "tsx"} -> build_typescript_variants(s)
            [] Head(languages) = "swift" -> build_swift_variants(s)
            [] Head(languages) = "rust" -> build_rust_variants(s)
            [] OTHER -> <<>>)
         \o language_variants(Tail(languages), s)

\* QueryRewriter::build, dedup_queries
build(symbol, languages) ==
    LET s == Trim(symbol)
        type_hint == derive_type_hint(symbol)
        base == << escape_literal(s),
                   escape_literal(s \o <<" ">> \o type_hint),
                   escape_literal(s \o <<" ","e","r","r","o","r">>),
                   escape_literal(type_hint \o <<".">> \o s) >>
    IN IF s = <<>> THEN <<>> ELSE DedupSeq(base \o language_variants(languages, s))

(***************************************************************************)
(* Paths relative to the root, as (directory, file stem, extension); the   *)
(* files of the repository the engine is run on.                           *)
(***************************************************************************)
File(d, n, e) == [dir |-> d, name |-> n, ext |-> e]
LibRs == File("src", "lib", "rs")
AuthTs == File("src", "auth", "ts")
GuideMd == File("docs", "guide", "md")
Files == {LibRs, AuthTs, GuideMd}

\* fs::read_dir of a directory of the repository (the order the OS lists it in).
ReadDir(dir) ==
    SelectSeq(<<LibRs, AuthTs, GuideMd>>, LAMBDA f : f.dir = dir)
IsDir(dir) == \E f \in Files : f.dir = dir

(***************************************************************************)
(* A path as a tool prints it: "./src/lib.rs" for a search of ".",         *)
(* "src/lib.rs" for a search of named paths, root-joined by the fd         *)
(* adapter. normalize_path canonicalizes and strips the root.              *)
(***************************************************************************)
RawPath(form, f) == [form |-> form, file |-> f]
normalize_path(raw) == raw.file

\* expand_language_hint has already been applied: the tokens of the request.
LanguageChoices == {<<>>, <<"rust">>}

\* extensions_for_languages (None is <<>>)
extensions_for_languages(languages) ==
    LET ext(lang) == CASE lang = "swift" -> <<"swift">>
                       [] lang = "tsx" -> <<"tsx">>
                       [] lang \in {"ts", "typescript"} -> <<"ts", "tsx">>
                       [] lang = "rust" -> <<"rs">>
                       [] lang \in {"js", "javascript"} -> <<"js", "jsx">>
                       [] lang = "jsx" -> <<"jsx">>
                       [] lang \in {"kt", "kts", "kotlin"} -> <<"kt", "kts">>
                       [] lang \in {"py", "python"} -> <<"py">>
                       [] OTHER -> <<>>
        RECURSIVE all(_)
        all(ls) == IF ls = <<>> THEN <<>> ELSE ext(Head(ls)) \o all(Tail(ls))
    IN DedupSeq(all(languages))

\* passes_extension_filter
passes_extension_filter(path, extensions) ==
    IF extensions = <<>> THEN TRUE ELSE Contains(extensions, path.ext)

(***************************************************************************)
(* The requests tried. The symbol is kept untrimmed, as SearchConfig does. *)
(***************************************************************************)
LoginUser == <<"l","o","g","i","n","_","u","s","e","r">>
Symbols == { LoginUser,               \* literal
             <<" ","f","n"," ">>,     \* literal once trimmed
             <<"a",".","b">>,         \* not literal
             <<" ">> }                \* blank

Configs ==
    [ symbol : Symbols,
      language_tokens : LanguageChoices,
      max_matches : {MaxRaw},
      use_index : BOOLEAN,
      use_rga : BOOLEAN,
      use_fd : BOOLEAN,
      use_ast : BOOLEAN,
      log_dir : BOOLEAN ]

Rewrites == build(config.symbol, config.language_tokens)

(***************************************************************************)
(* What the external tools find in the repository:                         *)
(*   tree.rg  - the match lines ripgrep prints for the rewrites, in order  *)
(*   tree.ast - the ast-grep matches (0-based lines); ast-grep matches an  *)
(*              identifier only on a line that holds the symbol            *)
(*   FdOutputs  - the files fd may list for the symbol                     *)
(*   RgaOutputs - the match lines ripgrep-all may print for the symbol     *)
(***************************************************************************)
Line(f, n, t) == [file |-> f, line_number |-> n, lines |-> t]
DefLine == Line(LibRs, 1, "pub fn")
DupLine == Line(LibRs, 1, "pub fn (again)")
CallLine == Line(AuthTs, MaxLine, "call")

\* Each file's lines come out together; the last output is one line longer
\* than MaxRaw at the bounds used.
RgOutputs ==
    { <<>>, <<DefLine>>, <<DefLine, DupLine>>, <<CallLine, DefLine>>,
      <<DefLine, DupLine, CallLine>> }

AstMatch(f, n) == [file |-> f, line |-> n]
DefAst == AstMatch(LibRs, 0)

Trees ==
    { t \in [rg : RgOutputs, ast : {<<>>, <<DefAst>>}] :
        t.ast # <<>> => Contains(t.rg, DefLine) }

FdOutputs == {<<>>, <<GuideMd, LibRs>>}
RgaOutputs == {<<>>, <<Line(GuideMd, 1, "doc")>>}

(***************************************************************************)
(* What an adapter call gives back: Ok(items), or an error (spawn failure, *)
(* exit status other than 0 or 1, timeout), in which case the items it had *)
(* collected are dropped with it.                                          *)
(***************************************************************************)
Kinds == {"ok", "error"}
Result(k, items) == [kind |-> k, items |-> items]
OkEmpty == Result("ok", <<>>)
NoCall == Result("none", <<>>)

\* unwrap_or_else(|err| { warn; Vec::new() }) and the match arms on Err
Recover(res) == IF res.kind = "ok" THEN res.items ELSE <<>>

\* elapsed_ms around a stage that invokes its tool, in milliseconds.
MaxMs == 1
ElapsedMs == 0..MaxMs

(***************************************************************************)
(* PersistentState (the hint store). symbol_hits and directory_scores are  *)
(* maps; a key that is absent is outside the function's domain.            *)
(***************************************************************************)
EmptyMap == [k \in {} |-> 0]
EmptyData == [symbol_hits |-> EmptyMap, directory_scores |-> EmptyMap]

\* A state.json left by an earlier run for the same symbol.
SeededData(symbol) ==
    [symbol_hits |-> (symbol :> <<AuthTs>>), directory_scores |-> ("src" :> 1)]

Put(map, k, v) == [x \in DOMAIN map \cup {k} |-> IF x = k THEN v ELSE map[x]]
Get(map, k, default) == IF k \in DOMAIN map THEN map[k] ELSE default

\* PersistentState::hints_for_symbol: the listed paths that still exist
\* (no file of the repository has a name beginning with '.').
hints_for_symbol(data, symbol) ==
    SelectSeq(Get(data.symbol_hits, symbol, <<>>), LAMBDA path : path \in Files)

\* PersistentState::top_directories: the map's entries in hash order, stably
\* sorted by score, highest first; the first `limit` of them; those that are
\* directories. One result per hash order.
top_directories(data, limit) ==
    LET scores == data.directory_scores
        sorted == {q \in Orderings(DOMAIN scores) :
                     \A i, j \in DOMAIN q : i < j => scores[q[i]] >= scores[q[j]]}
    IN {SelectSeq(Take(q, limit), IsDir) : q \in sorted}

\* PersistentState::top_directories of a map that iterates in the order q
top_directories_in(data, q, limit) ==
    LET scores == data.directory_scores
        At(d) == CHOOSE i \in DOMAIN q : q[i] = d
        sorted == CHOOSE r \in Orderings(DOMAIN scores) :
                    \A i, j \in DOMAIN r : i < j =>
                       \/ scores[r[i]] > scores[r[j]]
                       \/ scores[r[i]] = scores[r[j]] /\ At(r[i]) < At(r[j])
    IN SelectSeq(Take(sorted, limit), IsDir)

\* Variant: a path is appended whether or not the list has it.
RECURSIVE PushAll(_, _)
PushAll(entry, paths) ==
    IF paths = <<>> THEN entry
    ELSE PushAll(Append(entry, Head(paths)), Tail(paths))

\* Variant: a path not listed goes to the front of the list, most recent first.
RECURSIVE PushFront(_, _)
PushFront(entry, paths) ==
    IF paths = <<>> THEN entry
    ELSE PushFront(IF Contains(entry, Head(paths)) THEN entry
                   ELSE <<Head(paths)>> \o entry, Tail(paths))

\* PersistentState::observe, the symbol's hint list
RECURSIVE PushNew(_, _)
PushNew(entry, paths) ==
    IF paths = <<>> THEN entry
    ELSE PushNew(IF Contains(entry, Head(paths)) THEN entry
                 ELSE Append(entry, Head(paths)), Tail(paths))

\* PersistentState::observe, the directory counters
RECURSIVE CountDirs(_, _)
CountDirs(scores, hs) ==
    IF hs = <<>> THEN scores
    ELSE LET dir == Head(hs).path.dir
         IN CountDirs(IF dir = "" THEN scores
                      ELSE Put(scores, dir, Get(scores, dir, 0) + 1), Tail(hs))

HintListMax == 10
HintDirsMax == 20

\* Variant: the store is marked dirty even when there is nothing to record.
observe_always_dirty(st, symbol, hs) ==
    IF hs = <<>> THEN [st EXCEPT !.dirty = TRUE]
    ELSE LET entry == PushNew(Get(st.data.symbol_hits, symbol, <<>>),
                              Map(Take(hs, HintListMax), LAMBDA h : h.path))
         IN [data |-> [symbol_hits |-> Put(st.data.symbol_hits, symbol,
                                           Take(entry, HintListMax)),
                       directory_scores |-> CountDirs(st.data.directory_scores,
                                                      Take(hs, HintDirsMax))],
             dirty |-> TRUE]

\* PersistentState::observe
observe(st, symbol, hs) ==
    IF hs = <<>> THEN st
    ELSE LET entry == PushNew(Get(st.data.symbol_hits, symbol, <<>>),
                              Map(Take(hs, HintListMax), LAMBDA h : h.path))
         IN [data |-> [symbol_hits |-> Put(st.data.symbol_hits, symbol,
                                           Take(entry, HintListMax)),
                       directory_scores |-> CountDirs(st.data.directory_scores,
                                                      Take(hs, HintDirsMax))],
             dirty |-> TRUE]

(***************************************************************************)
(* state.json. serde_json writes a map as one object, its entries in the   *)
(* order the HashMap iterates them; reading inserts the entries one by one *)
(* into a new map.                                                         *)
(***************************************************************************)
NoFile == [absent |-> TRUE]

\* The entries of a map, one sequence per iteration order.
Entries(map) ==
    {[i \in 1..Len(q) |-> <<q[i], map[q[i]]>>] : q \in Orderings(DOMAIN map)}

\* serde_json::to_writer_pretty of PersistentStateData
to_json(data) ==
    {[symbol_hits |-> s, directory_scores |-> d] :
        s \in Entries(data.symbol_hits), d \in Entries(data.directory_scores)}

RECURSIVE FromEntries(_)
FromEntries(es) ==
    IF es = <<>> THEN EmptyMap
    ELSE LET e == es[Len(es)]
         IN Put(FromEntries(SubSeq(es, 1, Len(es) - 1)), e[1], e[2])

\* serde_json::from_str into PersistentStateData
from_json(text) ==
    [symbol_hits |-> FromEntries(text.symbol_hits),
     directory_scores |-> FromEntries(text.directory_scores)]

\* PersistentState::load
load(file) ==
    [data |-> IF file = NoFile THEN EmptyData ELSE from_json(file), dirty |-> FALSE]

(***************************************************************************)
(* SearchHit: scores are in hundredths (1.0 is 100).                       *)
(***************************************************************************)
\* Variant: the hit keeps a 0-based line.
from_ripgrep_zero_based(m, kind) ==
    [path |-> normalize_path(m.path), line |-> m.line_number - 1, snippet |-> m.lines,
     score |-> 100, origin |-> kind]

\* SearchHit::from_ripgrep
from_ripgrep(m, kind) ==
    [path |-> normalize_path(m.path), line |-> m.line_number, snippet |-> m.lines,
     score |-> 100, origin |-> kind]

\* SearchHit::from_rga
from_rga(m) ==
    [path |-> normalize_path(m.path), line |-> m.line_number, snippet |-> m.lines,
     score |-> 90, origin |-> "rga"]

Key(h) == <<h.path, h.line>>

(***************************************************************************)
(* RipgrepTool::search_union: what the adapter collects from the child.    *)
(* With no path the child searches "."; with paths it is given the first   *)
(* max_matches of them. The adapter keeps the first max_matches matches.   *)
(***************************************************************************)
search_union(paths) ==
    LET scope == Take(paths, config.max_matches)
        form == IF paths = <<>> THEN "dot" ELSE "rel"
        found == SelectSeq(tree.rg, LAMBDA l : paths = <<>> \/ Contains(scope, l.file))
    IN Take(Map(found, LAMBDA l : [path |-> RawPath(form, l.file),
                                   line_number |-> l.line_number,
                                   lines |-> l.lines]),
            config.max_matches)

RgResults(paths) == {Result(k, search_union(paths)) : k \in Kinds}

\* FdTool::run: each line joined to the root.
FdResults ==
    {Result(k, Map(out, LAMBDA f : RawPath("abs", f))) : k \in Kinds, out \in FdOutputs}

\* RgaTool::search: the first max_matches match lines.
RgaResults ==
    {Result(k, Take(Map(out, LAMBDA l : [path |-> RawPath("dot", l.file),
                                         line_number |-> l.line_number,
                                         lines |-> l.lines]),
                    config.max_matches)) : k \in Kinds, out \in RgaOutputs}

\* AstGrepTool::search_identifier: the matches in the given paths (the whole
\* tree when none is given), distinct by (path, line), at most max_matches.
search_identifier(paths) ==
    Take(Map(SelectSeq(tree.ast, LAMBDA m : paths = {} \/ m.file \in paths),
             LAMBDA m : [path |-> RawPath("rel", m.file), line |-> m.line]),
         config.max_matches)

AstResults(paths) == {Result(k, search_identifier(paths)) : k \in Kinds}

\* The index: build-or-open fails, the search fails, or the search returns
\* the files that hold the symbol (at most max_matches).
IndexResults ==
    { Result("init_error", <<>>), Result("error", <<>>),
      Result("ok", Take(DedupSeq(Map(tree.rg, LAMBDA l : l.file)), config.max_matches)) }

(***************************************************************************)
(* run_cycle. Each stage is a step from the locals of run_cycle (Core) to  *)
(* their next values, given what the stage's tool call gave back.          *)
(***************************************************************************)
StageStatsDefault ==
    [discover_candidates |-> 0, probe_hits |-> 0, escalate_hits |-> 0,
     index_candidates |-> 0, index_probe_hits |-> 0, rga_hits |-> 0,
     disambiguate_ms |-> 0, ast_matches |-> 0]

Core == [pc |-> pc, fast |-> fast, hits |-> hits, cands |-> discover_candidates,
         ast |-> ast_matches, stats |-> stage_stats, calls |-> calls]

\* An entry of `calls`: the engine called a tool's adapter (for rg, entered
\* probe; for the index, entered the index stage) or looked up the hint store.
Call(tool, stage) == [tool |-> tool, stage |-> stage]

\* SearchEngine::probe, the hits of one ripgrep call
probe(res, kind) == Map(Recover(res), LAMBDA m : from_ripgrep(m, kind))

\* Variant: the fast path labels its hits as scoped.
try_fast_path_scoped(res) ==
    IF ~is_literal_symbol(config.symbol)
    THEN [Core EXCEPT !.pc = "discover"]
    ELSE LET found == probe(res, "rg-scoped")
             called == Append(calls, Call("rg", "fast"))
         IN IF found = <<>>
            THEN [Core EXCEPT !.pc = "discover", !.calls = called]
            ELSE [Core EXCEPT !.pc = "verify", !.fast = TRUE, !.calls = called,
                              !.hits = found,
                              !.stats = [StageStatsDefault EXCEPT
                                           !.probe_hits = Len(found)]]

\* SearchEngine::try_fast_path up to the call of verify
try_fast_path(res) ==
    IF ~is_literal_symbol(config.symbol)
    THEN [Core EXCEPT !.pc = "discover"]
    ELSE LET found == probe(res, "rg-global")
             called == Append(calls, Call("rg", "fast"))
         IN IF found = <<>>
            THEN [Core EXCEPT !.pc = "discover", !.calls = called]
            ELSE [Core EXCEPT !.pc = "verify", !.fast = TRUE, !.calls = called,
                              !.hits = found,
                              !.stats = [StageStatsDefault EXCEPT
                                           !.probe_hits = Len(found)]]

\* The files of the listed directories discover() adds: the first five
\* entries of each, hidden names skipped.
RECURSIVE DirectoryHints(_)
DirectoryHints(dirs) ==
    IF dirs = <<>> THEN <<>>
    ELSE Take(ReadDir(Head(dirs)), 5) \o DirectoryHints(Tail(dirs))

\* The swift hints of discover: Package.swift, then the files of Sources (the
\* repository has no directory below Sources).
PackageSwift == File("", "Package", "swift")
AppSwift == File("Sources", "App", "swift")
SwiftHints ==
    SelectSeq(<<PackageSwift>>, LAMBDA f : f \in Files) \o Take(ReadDir("Sources"), 20)

\* Variant: the hints of the store come first.
assemble_candidates_hints_first(fd_results, symbol_hints, dir_files, swift_hints, exts) ==
    LET keep(paths) == SelectSeq(paths, LAMBDA f : passes_extension_filter(f, exts))
    IN DedupSeq(keep(symbol_hints)
                \o keep(Map(fd_results, normalize_path))
                \o keep(Map(dir_files, normalize_path))
                \o keep(Map(swift_hints, normalize_path)))

\* The four loops of discover over one `candidates` and one `seen`: fd's
\* results, the symbol's hints (taken as the store has them), the files of
\* the hinted directories, the swift hints.
assemble_candidates(fd_results, symbol_hints, dir_files, swift_hints, exts) ==
    LET keep(paths) == SelectSeq(paths, LAMBDA f : passes_extension_filter(f, exts))
    IN DedupSeq(keep(Map(fd_results, normalize_path))
                \o keep(symbol_hints)
                \o keep(Map(dir_files, normalize_path))
                \o keep(Map(swift_hints, normalize_path)))

\* SearchEngine::discover and the discover stage of run_cycle
discover(res, dirs) ==
    LET extensions == extensions_for_languages(config.language_tokens)
        fd_results == IF config.use_fd THEN Recover(res) ELSE <<>>
        candidates == assemble_candidates(fd_results,
                          hints_for_symbol(state.data, config.symbol),
                          Map(DirectoryHints(dirs), LAMBDA f : RawPath("abs", f)),
                          IF Contains(config.language_tokens, "swift")
                          THEN Map(SwiftHints, LAMBDA f : RawPath("abs", f)) ELSE <<>>,
                          extensions)
    IN [Core EXCEPT !.pc = "probe", !.cands = candidates,
                    !.calls = (IF config.use_fd THEN Append(@, Call("fd", "discover")) ELSE @)
                              \o <<Call("hints", "discover")>>,
                    !.stats = [@ EXCEPT !.discover_candidates = Len(candidates)]]

\* Variant: the probe keeps only the hits inside the discover set and counts
\* what ripgrep returned.
probe_scoped_filtered(res) ==
    LET found == probe(res, "rg-scoped")
        kept == SelectSeq(found, LAMBDA h : Contains(discover_candidates, h.path))
    IN [Core EXCEPT !.pc = "escalate", !.hits = kept,
                    !.calls = Append(@, Call("rg", "scoped")),
                    !.stats = [@ EXCEPT !.probe_hits = Len(found)]]

\* run_cycle, "Probe (Scoped)"
probe_scoped(res) ==
    LET found == probe(res, "rg-scoped")
    IN [Core EXCEPT !.pc = "escalate", !.hits = found,
                    !.calls = Append(@, Call("rg", "scoped")),
                    !.stats = [@ EXCEPT !.probe_hits = Len(found)]]

\* run_cycle, "Escalate to global if needed"
escalate(res) ==
    IF hits # <<>> THEN [Core EXCEPT !.pc = "index"]
    ELSE LET found == probe(res, "rg-global")
         IN [Core EXCEPT !.pc = "index", !.hits = found,
                         !.calls = Append(@, Call("rg", "global")),
                         !.stats = [@ EXCEPT !.escalate_hits = Len(found)]]

\* run_cycle, the index fallback
index_fallback(ires, res) ==
    IF hits # <<>> \/ ~config.use_index THEN [Core EXCEPT !.pc = "rga"]
    ELSE LET candidates == Recover(ires)
             found == probe(res, "rg-indexed")
             entered == Append(calls, Call("index", "index"))
         IN IF candidates = <<>>
            THEN [Core EXCEPT !.pc = "rga", !.calls = entered]
            ELSE [Core EXCEPT !.pc = "rga", !.hits = hits \o found,
                              !.calls = Append(entered, Call("rg", "indexed")),
                              !.stats = [@ EXCEPT !.index_candidates = Len(candidates),
                                                  !.index_probe_hits = Len(found)]]

\* Variant: the rga fallback runs whether or not earlier stages found hits.
rga_fallback_always(res) ==
    IF ~config.use_rga THEN [Core EXCEPT !.pc = "disambiguate"]
    ELSE LET found == Map(Recover(res), from_rga)
         IN [Core EXCEPT !.pc = "disambiguate", !.hits = hits \o found,
                         !.calls = Append(@, Call("rga", "rga")),
                         !.stats = [@ EXCEPT !.rga_hits = Len(found)]]

\* run_cycle, the rga fallback
rga_fallback(res) ==
    IF hits # <<>> \/ ~config.use_rga THEN [Core EXCEPT !.pc = "disambiguate"]
    ELSE LET found == Map(Recover(res), from_rga)
         IN [Core EXCEPT !.pc = "disambiguate", !.hits = hits \o found,
                         !.calls = Append(@, Call("rga", "rga")),
                         !.stats = [@ EXCEPT !.rga_hits = Len(found)]]

\* SearchEngine::disambiguate and the disambiguate stage of run_cycle
disambiguate(res, ms) ==
    LET found == IF config.use_ast THEN Recover(res) ELSE <<>>
    IN [Core EXCEPT !.pc = "verify", !.ast = found,
                    !.calls = IF config.use_ast THEN Append(@, Call("ast-grep", "disambiguate"))
                              ELSE @,
                    !.stats = [@ EXCEPT !.disambiguate_ms = ms,
                                        !.ast_matches = Len(found)]]

(***************************************************************************)
(* SearchEngine::verify                                                    *)
(***************************************************************************)
FdBonus == 20
GlobalPenalty == 5
IndexedBonus == 10
RgaPenalty == 10
AstBonus == 50
TopN == 5

\* Variant: the ast-grep line is used as it is.
ast_set_zero_based(ast) == {<<normalize_path(m.path), m.line>> : m \in Range(ast)}

\* The (path, line) keys of the ast-grep matches: ast-grep lines are 0-based.
ast_set(ast) == {<<normalize_path(m.path), m.line + 1>> : m \in Range(ast)}

\* The score and origin a raw hit gets in the loop of verify.
adjust(hit, asts, fd_set) ==
    LET s1 == hit.score + (IF hit.path \in fd_set THEN FdBonus ELSE 0)
        s2 == CASE hit.origin = "rg-global" -> s1 - GlobalPenalty
                [] hit.origin = "rg-indexed" -> s1 + IndexedBonus
                [] hit.origin = "rga" -> s1 - RgaPenalty
                [] OTHER -> s1
    IN IF Key(hit) \in asts
       THEN [hit EXCEPT !.score = s2 + AstBonus, !.origin = "ast-grep"]
       ELSE [hit EXCEPT !.score = s2]

\* Variant: a later hit also replaces the kept one on a tie.
ReplacesOnTie(hit, existing) == hit.score >= existing.score

\* and_modify: a later hit replaces the kept one only with a higher score.
Replaces(hit, existing) == hit.score > existing.score

\* The dedup map after the loop over the raw hits.
RECURSIVE merge(_, _, _, _)
merge(hs, asts, fd_set, dedup) ==
    IF hs = <<>> THEN dedup
    ELSE LET hit == adjust(Head(hs), asts, fd_set)
             key == Key(hit)
         IN merge(Tail(hs), asts, fd_set,
                  IF key \notin DOMAIN dedup \/ Replaces(hit, dedup[key])
                  THEN Put(dedup, key, hit) ELSE dedup)

\* Variant: the values in the map's iteration order, not sorted.
unsorted_values(dedup) == Orderings({dedup[k] : k \in DOMAIN dedup})

\* into_values().collect() followed by the stable sort by score, highest
\* first: one sequence per iteration order of the map.
sorted_values(dedup) ==
    {q \in Orderings({dedup[k] : k \in DOMAIN dedup}) :
        \A i, j \in DOMAIN q : i < j => q[i].score >= q[j].score}

\* Variant: the cache filters nothing.
retain_all(seen, hs) == hs

\* SearchCache::retain_new
retain_new(seen, hs) == SelectSeq(hs, LAMBDA h : Key(h) \notin seen)

TopHit(h) == [path |-> h.path, line |-> h.line, score |-> h.score, origin |-> h.origin]

(***************************************************************************)
(* compute_metrics. An f32 is kept as the exact fraction n/d it stands for *)
(* (d > 0).                                                                *)
(***************************************************************************)
Frac(n, d) == [n |-> n, d |-> d]
Plus(a, b) == Frac(a.n * b.d + b.n * a.d, a.d * b.d)
Over(a, b) == Frac(a.n * b.d, a.d * b.n)
Weighted(percent, a) == Frac(percent * a.n, a.d)
AtMost(a, b) == a.n * b.d <= b.n * a.d
Zero == Frac(0, 1)
One == Frac(1, 1)

\* SearchMetrics::default()
NoMetrics == [precision |-> Zero, density |-> Zero, cluster_score |-> Zero, reward |-> Zero]

\* Variant: the reward is the precision term alone.
compute_metrics_precision_only(hs, asts, fd_candidates) ==
    IF hs = <<>> THEN NoMetrics
    ELSE LET precision == Frac(Cardinality(asts), Len(hs))
         IN [precision |-> precision, density |-> Zero, cluster_score |-> Zero,
             reward |-> Frac(50 * precision.n, 100 * precision.d)]

compute_metrics(hs, asts, fd_candidates) ==
    IF hs = <<>> THEN NoMetrics
    ELSE LET precision == Frac(Cardinality(asts), Len(hs))
             unique_files == {h.path : h \in Range(hs)}
             density_raw == Frac(Len(hs), Cardinality(unique_files))
             density == Over(density_raw, Plus(density_raw, One))
             lines == {h.line : h \in Range(hs)}
             min_line == CHOOSE n \in lines : \A m \in lines : n <= m
             max_line == CHOOSE n \in lines : \A m \in lines : n >= m
             line_span == IF max_line >= min_line THEN max_line - min_line ELSE 0
             cluster_norm == Frac(line_span, Len(hs) + 1)
             cluster_score == Over(One, Plus(One, cluster_norm))
             fd_bonus == IF fd_candidates > 0
                         THEN Frac(Min(Len(hs), fd_candidates), fd_candidates)
                         ELSE Zero
             sum == Plus(Plus(Weighted(50, precision), Weighted(30, density)),
                         Plus(Weighted(15, cluster_score), Weighted(5, fd_bonus)))
         IN [precision |-> precision, density |-> density,
             cluster_score |-> cluster_score, reward |-> Frac(sum.n, 100 * sum.d)]

\* The inputs verify is called with: the fast path passes no ast matches and
\* no discover candidates.
VerifyAst == IF fast THEN <<>> ELSE ast_matches
VerifyFd == IF fast THEN <<>> ELSE discover_candidates

Verify ==
    /\ pc = "verify"
    /\ \E sorted \in sorted_values(merge(hits, ast_set(VerifyAst), Range(VerifyFd), EmptyMap)) :
         LET dedup_hits == retain_new(dedup_cache, sorted)
             top_hits == Map(Take(dedup_hits, TopN), TopHit)
         IN /\ dedup_cache' = dedup_cache \cup {Key(h) : h \in Range(dedup_hits)}
            /\ state' = observe(state, config.symbol, dedup_hits)
            /\ verification' =
                 [retained |-> dedup_hits,
                  top_hits |-> top_hits,
                  next_actions |-> Map(top_hits, LAMBDA t : <<"inspect", t.path, t.line>>),
                  dedup_count |-> Len(dedup_hits),
                  fd_candidates |-> VerifyFd,
                  ast_hits |-> Map(VerifyAst,
                                   LAMBDA m : <<normalize_path(m.path), m.line + 1>>),
                  metrics |-> compute_metrics(dedup_hits, ast_set(VerifyAst),
                                              Cardinality(Range(VerifyFd)))]
    /\ pc' = "save"
    /\ last_call' = [stage |-> "verify", failed |-> FALSE]
    /\ UNCHANGED <<config, tree, fast, hits, discover_candidates, ast_matches,
                   stage_stats, calls, invoked, disk, summary, result, log>>
    /\ UNCHANGED <<avars, xvars>>

\* PersistentState::save, then the summary run_cycle (or the fast path) builds
NoSummary == [cycle |-> 0]

Save ==
    /\ pc = "save"
    /\ \E outcome \in IF state.dirty THEN {"ok", "create_failed", "rename_failed"}
                      ELSE {"clean"} :
         /\ state' = IF outcome = "ok" THEN [state EXCEPT !.dirty = FALSE] ELSE state
         /\ disk' \in IF outcome = "ok" THEN to_json(state.data) ELSE {disk}
         /\ last_call' = [stage |-> "save",
                          failed |-> outcome \in {"create_failed", "rename_failed"}]
    /\ summary' = [cycle |-> 1,
                   symbol |-> config.symbol,
                   queries |-> Rewrites,
                   top_hits |-> verification.top_hits,
                   deduped |-> verification.dedup_count,
                   next_actions |-> verification.next_actions,
                   fd_candidates |-> IF fast THEN <<>> ELSE verification.fd_candidates,
                   ast_hits |-> IF fast THEN <<>> ELSE verification.ast_hits,
                   stage_stats |-> stage_stats]
    /\ pc' = "log"
    /\ UNCHANGED <<config, tree, fast, hits, discover_candidates, ast_matches,
                   stage_stats, calls, invoked, dedup_cache, verification, result, log>>
    /\ UNCHANGED <<avars, xvars>>

\* The JSON object log_summary writes as one line
LogEntry(s) == [symbol |-> config.symbol, status |-> "ok", summary |-> s]

\* SearchEngine::log_summary and the return of run_cycle. The file is a
\* tokio::fs::File: write_all hands the line to a blocking task and returns
\* Ok; the file is dropped without flush, so a write that fails fails
\* unseen.
LogSummary ==
    /\ pc = "log"
    /\ \E outcome \in IF config.log_dir
                      THEN {"ok", "create_dir_failed", "open_failed", "write_failed"}
                      ELSE {"none"} :
         /\ log' = IF outcome = "ok" THEN Append(log, LogEntry(summary)) ELSE log
         /\ result' = IF outcome \in {"ok", "write_failed", "none"} THEN "ok" ELSE "err"
         /\ last_call' = [stage |-> "log",
                          failed |-> outcome \in {"create_dir_failed", "open_failed"}]
    /\ pc' = "done"
    /\ UNCHANGED <<config, tree, fast, hits, discover_candidates, ast_matches,
                   stage_stats, calls, invoked, dedup_cache, state, disk, verification, summary>>
    /\ UNCHANGED <<avars, xvars>>

(***************************************************************************)
(* The stages of run_cycle as actions. A stage that does not invoke its    *)
(* tool gets NoCall for the tool's result.                                 *)
(***************************************************************************)
SetCore(n) ==
    /\ pc' = n.pc
    /\ fast' = n.fast
    /\ hits' = n.hits
    /\ discover_candidates' = n.cands
    /\ ast_matches' = n.ast
    /\ stage_stats' = n.stats
    /\ calls' = n.calls
    /\ UNCHANGED <<config, tree, dedup_cache, state, disk, verification, summary,
                   result, log>>
    /\ UNCHANGED <<avars, xvars>>

Failed(res) == res.kind \in {"error", "init_error"}

\* An adapter invocation and its end. Err is the tool's failure or the
\* deadline of timeout(self.timeout, collect): run_cycle does not tell the
\* two apart.
Outcome(res, tool, stage) ==
    IF res.kind = "none" THEN <<>>
    ELSE <<[tool |-> tool, stage |-> stage, kind |-> res.kind]>>

TryFastPath ==
    /\ pc = "start"
    /\ \E res \in IF is_literal_symbol(config.symbol) THEN RgResults(<<>>) ELSE {NoCall} :
         /\ SetCore(try_fast_path(res))
         /\ last_call' = [stage |-> "fast", failed |-> Failed(res)]
         /\ invoked' = invoked \o Outcome(res, "rg", "fast")

Discover ==
    /\ pc = "discover"
    /\ \E res \in IF config.use_fd THEN FdResults ELSE {NoCall},
          dirs \in top_directories(state.data, 3) :
         /\ SetCore(discover(res, dirs))
         /\ last_call' = [stage |-> "discover", failed |-> Failed(res)]
         /\ invoked' = invoked \o Outcome(res, "fd", "discover")

ProbeScoped ==
    /\ pc = "probe"
    /\ \E res \in IF Rewrites # <<>> THEN RgResults(discover_candidates) ELSE {NoCall} :
         /\ SetCore(probe_scoped(res))
         /\ last_call' = [stage |-> "probe", failed |-> Failed(res)]
         /\ invoked' = invoked \o Outcome(res, "rg", "scoped")

Escalate ==
    /\ pc = "escalate"
    /\ \E res \in IF hits = <<>> /\ Rewrites # <<>> THEN RgResults(<<>>) ELSE {NoCall} :
         /\ SetCore(escalate(res))
         /\ last_call' = [stage |-> "escalate", failed |-> Failed(res)]
         /\ invoked' = invoked \o Outcome(res, "rg", "global")

IndexFallback ==
    /\ pc = "index"
    /\ \E ires \in IF hits = <<>> /\ config.use_index THEN IndexResults ELSE {NoCall} :
         \E res \in IF Recover(ires) # <<>> /\ Rewrites # <<>>
                    THEN RgResults(Recover(ires)) ELSE {NoCall} :
            /\ SetCore(index_fallback(ires, res))
            /\ last_call' = [stage |-> "index", failed |-> Failed(ires) \/ Failed(res)]
            /\ invoked' = invoked \o Outcome(ires, "index", "index") \o Outcome(res, "rg", "indexed")

RgaFallback ==
    /\ pc = "rga"
    /\ \E res \in IF hits = <<>> /\ config.use_rga THEN RgaResults ELSE {NoCall} :
         /\ SetCore(rga_fallback(res))
         /\ last_call' = [stage |-> "rga", failed |-> Failed(res)]
         /\ invoked' = invoked \o Outcome(res, "rga", "rga")

Disambiguate ==
    /\ pc = "disambiguate"
    /\ \E res \in IF config.use_ast THEN AstResults({h.path : h \in Range(hits)})
                  ELSE {NoCall},
          ms \in IF config.use_ast THEN ElapsedMs ELSE {0} :
         /\ SetCore(disambiguate(res, ms))
         /\ last_call' = [stage |-> "disambiguate", failed |-> Failed(res)]
         /\ invoked' = invoked \o Outcome(res, "ast-grep", "disambiguate")

(***************************************************************************)
(* SearchEngine::new followed by run_cycle: execute() builds a fresh       *)
(* engine for every request, so the cache is empty and the hint store is   *)
(* what state.json held.                                                   *)
(***************************************************************************)
NoVerification == [dedup_count |-> 0]

CycleInit ==
    \E c \in Configs, t \in Trees :
      \E d \in {NoFile} \cup to_json(SeededData(c.symbol)) :
        /\ config = c
        /\ tree = t
        /\ pc = "start"
        /\ fast = FALSE
        /\ hits = <<>>
        /\ discover_candidates = <<>>
        /\ ast_matches = <<>>
        /\ stage_stats = StageStatsDefault
        /\ calls = <<>>
        /\ last_call = [stage |-> "none", failed |-> FALSE]
        /\ invoked = <<>>
        /\ dedup_cache = {}
        /\ state = load(d)
        /\ disk = d
        /\ verification = NoVerification
        /\ summary = NoSummary
        /\ result = "none"
        /\ log = <<>>

Init == AdapterIdle /\ CycleInit

Next ==
    \/ TryFastPath
    \/ Discover
    \/ ProbeScoped
    \/ Escalate
    \/ IndexFallback
    \/ RgaFallback
    \/ Disambiguate
    \/ Verify
    \/ Save
    \/ LogSummary

Spec == Init /\ [][Next]_vars

(***************************************************************************)
(* run_cycle on a repository with more matching lines than a summary       *)
(* shows (SpecLarge): the same cycle, for requests with a larger           *)
(* max_matches.                                                            *)
(***************************************************************************)
MaxHits == 6       \* max_matches of these requests

\* The match lines of the larger repository, in the order rg prints them.
LargeLines ==
    << Line(LibRs, 1, "pub fn"), Line(AuthTs, 1, "import"), Line(GuideMd, 1, "title"),
       Line(LibRs, 2, "body"), Line(AuthTs, 2, "call"), Line(GuideMd, 2, "text"),
       Line(LibRs, 3, "end") >>

LargeTrees ==
    [ rg : {Take(LargeLines, n) : n \in {0} \cup (MaxHits - 1 .. Len(LargeLines))},
      ast : {<<>>, <<AstMatch(GuideMd, 1)>>} ]

LargeConfigs ==
    [ symbol : {<<"a",".","b">>},
      language_tokens : {<<>>},
      max_matches : {MaxHits},
      use_index : {FALSE},
      use_rga : {FALSE},
      use_fd : BOOLEAN,
      use_ast : {TRUE},
      log_dir : {FALSE} ]

LargeInit ==
    /\ AdapterIdle
    /\ \E c \in LargeConfigs, t \in LargeTrees :
        /\ config = c
        /\ tree = t
        /\ pc = "start"
        /\ fast = FALSE
        /\ hits = <<>>
        /\ discover_candidates = <<>>
        /\ ast_matches = <<>>
        /\ stage_stats = StageStatsDefault
        /\ calls = <<>>
        /\ last_call = [stage |-> "none", failed |-> FALSE]
        /\ invoked = <<>>
        /\ dedup_cache = {}
        /\ state = [data |-> EmptyData, dirty |-> FALSE]
        /\ disk = NoFile
        /\ verification = NoVerification
        /\ summary = NoSummary
        /\ result = "none"
        /\ log = <<>>

SpecLarge == LargeInit /\ [][Next]_vars

(***************************************************************************)
(* Requests with ast-grep on, over trees where ast-grep matches more       *)
(* places than rg prints lines: a definition whose node starts on a line   *)
(* that does not hold the symbol.                                          *)
(***************************************************************************)
MetricsTrees ==
    [ rg : RgOutputs,
      ast : {<<>>, <<DefAst>>, <<DefAst, AstMatch(LibRs, MaxLine)>>} ]

MetricsConfigs ==
    [ symbol : {LoginUser, <<"a",".","b">>},
      language_tokens : {<<>>},
      max_matches : {MaxRaw},
      use_index : {FALSE},
      use_rga : {FALSE},
      use_fd : BOOLEAN,
      use_ast : {TRUE},
      log_dir : {FALSE} ]

MetricsInit ==
    /\ AdapterIdle
    /\ \E c \in MetricsConfigs, t \in MetricsTrees :
        /\ config = c
        /\ tree = t
        /\ pc = "start"
        /\ fast = FALSE
        /\ hits = <<>>
        /\ discover_candidates = <<>>
        /\ ast_matches = <<>>
        /\ stage_stats = StageStatsDefault
        /\ calls = <<>>
        /\ last_call = [stage |-> "none", failed |-> FALSE]
        /\ invoked = <<>>
        /\ dedup_cache = {}
        /\ state = [data |-> EmptyData, dirty |-> FALSE]
        /\ disk = NoFile
        /\ verification = NoVerification
        /\ summary = NoSummary
        /\ result = "none"
        /\ log = <<>>

SpecMetrics == MetricsInit /\ [][Next]_vars

(***************************************************************************)
(* A second call after the first has ended, with the same request on the   *)
(* unchanged repository: run_cycle once more on the same engine            *)
(* (SpecReuse), or execute() once more, which builds a new engine          *)
(* (SpecExecute).                                                          *)
(***************************************************************************)
MaxCycles == 2     \* calls made one after the other

\* What is kept of a cycle that has ended.
Ended ==
    [retained |-> {Key(h) : h \in Range(verification.retained)},
     top |-> {<<t.path, t.line>> : t \in Range(summary.top_hits)},
     cands |-> discover_candidates,
     stats |-> stage_stats,
     fast |-> fast]

\* The locals of a run_cycle call that begins.
BeginCycle ==
    /\ pc' = "start"
    /\ fast' = FALSE
    /\ hits' = <<>>
    /\ discover_candidates' = <<>>
    /\ ast_matches' = <<>>
    /\ stage_stats' = StageStatsDefault
    /\ calls' = <<>>
    /\ last_call' = [stage |-> "none", failed |-> FALSE]
    /\ invoked' = <<>>
    /\ verification' = NoVerification
    /\ summary' = NoSummary
    /\ result' = "none"
    /\ earlier' = Append(earlier, Ended)
    /\ UNCHANGED <<config, tree, disk, log>>
    /\ UNCHANGED <<avars, order, ops, observed, savers, fsys, pvars, rvars>>

\* run_cycle(&mut self) called again: the engine keeps its cache and its
\* hint store.
RunAgain ==
    /\ pc = "done"
    /\ result = "ok"
    /\ Len(earlier) < MaxCycles - 1
    /\ BeginCycle
    /\ UNCHANGED <<dedup_cache, state>>


\* execute() called again: SearchEngine::new builds an engine with an empty
\* cache and the hint store loaded from state.json.
ExecuteAgain ==
    /\ pc = "done"
    /\ result = "ok"
    /\ Len(earlier) < MaxCycles - 1
    /\ BeginCycle
    /\ dedup_cache' = {}
    /\ state' = load(disk)

BodyLine == Line(LibRs, MaxLine, "body")

AgainTrees ==
    [ rg : RgOutputs \cup {<<CallLine, DefLine, BodyLine>>}, ast : {<<>>} ]

AgainConfigs ==
    [ symbol : {LoginUser, <<"a",".","b">>},
      language_tokens : LanguageChoices,
      max_matches : {MaxRaw},
      use_index : {FALSE},
      use_rga : {FALSE},
      use_fd : BOOLEAN,
      use_ast : {FALSE},
      log_dir : {FALSE} ]

AgainInit ==
    /\ AdapterIdle
    /\ \E c \in AgainConfigs, t \in AgainTrees :
        /\ config = c
        /\ tree = t
        /\ pc = "start"
        /\ fast = FALSE
        /\ hits = <<>>
        /\ discover_candidates = <<>>
        /\ ast_matches = <<>>
        /\ stage_stats = StageStatsDefault
        /\ calls = <<>>
        /\ last_call = [stage |-> "none", failed |-> FALSE]
        /\ invoked = <<>>
        /\ dedup_cache = {}
        /\ state = [data |-> EmptyData, dirty |-> FALSE]
        /\ disk = NoFile
        /\ verification = NoVerification
        /\ summary = NoSummary
        /\ result = "none"
        /\ log = <<>>

SpecReuse == AgainInit /\ [][Next \/ RunAgain]_vars

SpecExecute == AgainInit /\ [][Next \/ ExecuteAgain]_vars

(***************************************************************************)
(* execute() called again and again with a log directory: the log file     *)
(* outlives the engines.                                                   *)
(***************************************************************************)
LogConfigs ==
    [ symbol : {LoginUser, <<"a",".","b">>},
      language_tokens : {<<>>},
      max_matches : {MaxRaw},
      use_index : {FALSE},
      use_rga : {FALSE},
      use_fd : {FALSE},
      use_ast : {FALSE},
      log_dir : BOOLEAN ]

LogTrees == [ rg : {<<>>, <<DefLine>>}, ast : {<<>>} ]

LogInit ==
    /\ AdapterIdle
    /\ \E c \in LogConfigs, t \in LogTrees :
        /\ config = c
        /\ tree = t
        /\ pc = "start"
        /\ fast = FALSE
        /\ hits = <<>>
        /\ discover_candidates = <<>>
        /\ ast_matches = <<>>
        /\ stage_stats = StageStatsDefault
        /\ calls = <<>>
        /\ last_call = [stage |-> "none", failed |-> FALSE]
        /\ invoked = <<>>
        /\ dedup_cache = {}
        /\ state = [data |-> EmptyData, dirty |-> FALSE]
        /\ disk = NoFile
        /\ verification = NoVerification
        /\ summary = NoSummary
        /\ result = "none"
        /\ log = <<>>

SpecLog == LogInit /\ [][Next \/ ExecuteAgain]_vars

(***************************************************************************)
(* One adapter call on its own: the engine does not move.                  *)
(***************************************************************************)
CycleIdle ==
    /\ config = [symbol |-> LoginUser, language_tokens |-> <<>>, max_matches |-> MaxRaw,
                 use_index |-> FALSE, use_rga |-> FALSE, use_fd |-> FALSE,
                 use_ast |-> FALSE, log_dir |-> FALSE]
    /\ tree = [rg |-> <<>>, ast |-> <<>>]
    /\ pc = "idle"
    /\ fast = FALSE
    /\ hits = <<>>
    /\ discover_candidates = <<>>
    /\ ast_matches = <<>>
    /\ stage_stats = StageStatsDefault
    /\ calls = <<>>
    /\ last_call = [stage |-> "none", failed |-> FALSE]
    /\ invoked = <<>>
    /\ dedup_cache = {}
    /\ state = [data |-> EmptyData, dirty |-> FALSE]
    /\ disk = NoFile
    /\ verification = NoVerification
    /\ summary = NoSummary
    /\ result = "none"
    /\ log = <<>>

AdapterInit == AdapterIdle /\ CycleIdle

SpecAdapter == AdapterInit /\ [][AdapterNext]_vars

SpecStages == AdapterInit /\ [][StagesNext]_vars

(***************************************************************************)
(* The hint store on its own: observe, save, and load into a new           *)
(* PersistentState (with a new HashMap, which iterates in an order of its  *)
(* own), in any sequence, starting from an empty store and no state.json.  *)
(***************************************************************************)
MaxPaths == 12     \* paths of the widest batch of hits
MaxObserves == 2   \* observe calls
MaxLimit == 2      \* largest limit asked of top_directories

svars == <<config, tree, pc, fast, hits, discover_candidates, ast_matches,
           stage_stats, calls, last_call, invoked, dedup_cache, verification, summary,
           result, log>>

StoreSymbols == {LoginUser, <<"a", ".", "b">>}

HitsOf(paths) ==
    [i \in 1..Len(paths) |->
       [path |-> paths[i], line |-> i, snippet |-> "", score |-> 100, origin |-> "rg-scoped"]]

WidePaths == [i \in 1..MaxPaths |-> File("gen", LowerSeq[i], "rs")]

Batches == { <<>>,
             HitsOf(<<LibRs, GuideMd>>),
             HitsOf(<<AuthTs, LibRs, AuthTs>>),
             HitsOf(WidePaths) }

\* What hints_for_symbol and top_directories answer on a store.
Answers(st, q) ==
    [hints |-> [s \in StoreSymbols |-> hints_for_symbol(st.data, s)],
     dirs |-> [k \in 0..MaxLimit |-> top_directories_in(st.data, q, k)]]

\* The record of a call: the store and the file before it, and what the
\* store answers after it.
Op(name, symbol, hs, ok, st, q) ==
    [op |-> name, symbol |-> symbol, hits |-> hs, ok |-> ok,
     before |-> state, file |-> disk, answers |-> Answers(st, q)]

Record(rec) ==
    ops' = IF ops = <<>> THEN <<rec>> ELSE <<ops[Len(ops)], rec>>

StoreObserve ==
    /\ pc = "idle"
    /\ observed < MaxObserves
    /\ \E symbol \in StoreSymbols, hs \in Batches :
         LET st == observe(state, symbol, hs)
         IN /\ state' = st
            /\ order' \in IF DOMAIN st.data.directory_scores = Range(order) THEN {order}
                          ELSE Orderings(DOMAIN st.data.directory_scores)
            /\ Record(Op("observe", symbol, hs, TRUE, st, order'))
    /\ observed' = observed + 1
    /\ UNCHANGED <<disk, svars, avars, earlier, savers, fsys, pvars, rvars>>

StoreSave ==
    /\ pc = "idle"
    /\ ops # <<>>
    /\ ops[Len(ops)].op # "save"
    /\ \E outcome \in IF state.dirty THEN {"ok", "create_failed", "rename_failed"}
                      ELSE {"clean"} :
         /\ state' = IF outcome = "ok" THEN [state EXCEPT !.dirty = FALSE] ELSE state
         /\ disk' \in IF outcome = "ok" THEN to_json(state.data) ELSE {disk}
         /\ Record(Op("save", <<>>, <<>>, outcome \in {"ok", "clean"}, state', order))
    /\ UNCHANGED <<order, observed, svars, avars, earlier, savers, fsys, pvars, rvars>>

StoreLoad ==
    /\ pc = "idle"
    /\ ops # <<>>
    /\ ops[Len(ops)].op # "load"
    /\ state' = load(disk)
    /\ order' \in Orderings(DOMAIN state'.data.directory_scores)
    /\ Record(Op("load", <<>>, <<>>, TRUE, state', order'))
    /\ UNCHANGED <<disk, observed, svars, avars, earlier, savers, fsys, pvars, rvars>>

StoreNext == StoreObserve \/ StoreSave \/ StoreLoad

StoreInit == AdapterIdle /\ CycleIdle

SpecStore == StoreInit /\ [][StoreNext]_vars

(***************************************************************************)
(* save() of engines that share a cache directory, step by step. Every     *)
(* engine's temporary file has the same name, state.json.tmp. File::create *)
(* opens the file of that name, emptied, or makes one; the BufWriter       *)
(* writes the serialized store through the open file in one or more        *)
(* write calls, each at the file's own offset; rename gives the file the   *)
(* name state.json.                                                        *)
(***************************************************************************)
MaxChunks == 2     \* write calls one serialized store takes

Engines == {"a", "b"}

\* The serialized store of engine e, as the chunks its writes carry.
Text(e, n) == [i \in 1..n |-> <<e, i>>]
Hole == <<"hole", 0>>

\* write(2) of one chunk at offset off (counted in chunks)
WriteAt(content, off, chunk) ==
    [i \in 1..(IF off + 1 > Len(content) THEN off + 1 ELSE Len(content)) |->
        IF i = off + 1 THEN chunk
        ELSE IF i <= Len(content) THEN content[i] ELSE Hole]

\* save() entered with the store dirty
EnterSave(e) ==
    /\ pc = "idle"
    /\ savers[e].pc = "idle"
    /\ \E n \in 1..MaxChunks :
         savers' = [savers EXCEPT ![e] = [pc |-> "create", fd |-> 0, off |-> 0, len |-> n]]
    /\ UNCHANGED <<fsys, avars, cvars, earlier, order, ops, observed, pvars, rvars>>

\* fs::File::create(&tmp_path)
CreateTemp(e) ==
    /\ savers[e].pc = "create"
    /\ IF fsys.tmp # 0
       THEN /\ fsys' = [fsys EXCEPT !.inodes[fsys.tmp] = <<>>]
            /\ savers' = [savers EXCEPT ![e].pc = "write", ![e].fd = fsys.tmp]
       ELSE /\ fsys' = [fsys EXCEPT !.inodes = Append(fsys.inodes, <<>>),
                                    !.tmp = Len(fsys.inodes) + 1]
            /\ savers' = [savers EXCEPT ![e].pc = "write",
                                        ![e].fd = Len(fsys.inodes) + 1]
    /\ UNCHANGED <<avars, cvars, earlier, order, ops, observed, pvars, rvars>>

\* serde_json::to_writer_pretty into the BufWriter, and writer.flush()
WriteChunk(e) ==
    /\ savers[e].pc = "write"
    /\ LET s == savers[e]
       IN /\ fsys' = [fsys EXCEPT !.inodes[s.fd] = WriteAt(@, s.off, <<e, s.off + 1>>)]
          /\ savers' = [savers EXCEPT ![e].off = s.off + 1,
                                      ![e].pc = IF s.off + 1 = s.len THEN "rename"
                                                ELSE "write"]
    /\ UNCHANGED <<avars, cvars, earlier, order, ops, observed, pvars, rvars>>

\* fs::rename(&tmp_path, &self.file_path), then dirty = false; an error
\* when no file has the temporary name any more
RenameTemp(e) ==
    /\ savers[e].pc = "rename"
    /\ IF fsys.tmp = 0
       THEN /\ savers' = [savers EXCEPT ![e].pc = "failed"]
            /\ fsys' = fsys
       ELSE /\ savers' = [savers EXCEPT ![e].pc = "saved"]
            /\ fsys' = [fsys EXCEPT !.json = fsys.tmp, !.tmp = 0, !.last = e]
    /\ UNCHANGED <<avars, cvars, earlier, order, ops, observed, pvars, rvars>>

SaveNext ==
    \E e \in Engines : EnterSave(e) \/ CreateTemp(e) \/ WriteChunk(e) \/ RenameTemp(e)

SpecSave == StoreInit /\ [][SaveNext]_vars

(***************************************************************************)
(* AstGrepTool::search_identifier as the loop it is: one ast-grep run per  *)
(* pattern, in the order of patterns_for_language, and what disambiguate   *)
(* makes of the result. A run is what the child of one pattern does: its   *)
(* exit status, its stderr and the matches it prints.                      *)
(***************************************************************************)
MaxPatterns == 2   \* patterns of one search_identifier call

OtherAst == AstMatch(LibRs, MaxLine)

PatternRuns ==
    { r \in [status : {0, 1, 2}, stderr : {<<>>, <<PlainLine>>, <<DiagLine>>},
             items : {<<>>, <<DefAst>>, <<DefAst, OtherAst>>, <<OtherAst>>}] :
        r.items # <<>> => r.status = 0 }

RunLists == UNION { [1..n -> PatternRuns] : n \in 1..MaxPatterns }

\* run_pattern: the policy on stderr and status, then matches.take(limit)
run_pattern(run, limit) ==
    LET o == OutputPolicy(run.status, run.stderr)
    IN IF o.ret = "ok" THEN Result("ok", Take(run.items, limit))
       ELSE Result(o.message.kind, <<>>)

\* The loop of search_identifier: `?` returns the first error of a pattern.
RECURSIVE search_patterns(_, _, _)
search_patterns(runs, aggregated, max_matches) ==
    IF runs = <<>> \/ Len(aggregated) >= max_matches THEN Result("ok", aggregated)
    ELSE LET r == run_pattern(Head(runs), max_matches - Len(aggregated))
         IN IF r.kind # "ok" THEN r
            ELSE search_patterns(Tail(runs),
                     Take(DedupSeq(aggregated \o r.items), max_matches), max_matches)

BeginSearch ==
    /\ astcall.pc = "idle"
    /\ \E runs \in RunLists, m \in 1..MaxRaw :
         astcall' = [pc |-> "call", runs |-> runs, max_matches |-> m]
    /\ UNCHANGED <<avars, cvars, earlier, order, ops, observed, savers, fsys, pvars, request, fcall>>

SearchIdentifier ==
    /\ astcall.pc = "call"
    /\ astcall' = [pc |-> "returned", runs |-> astcall.runs,
                   max_matches |-> astcall.max_matches,
                   res |-> search_patterns(astcall.runs, <<>>, astcall.max_matches)]
    /\ UNCHANGED <<avars, cvars, earlier, order, ops, observed, savers, fsys, pvars, request, fcall>>

\* disambiguate: .unwrap_or_else(|err| { warn; Vec::new() })
DisambiguateReturn ==
    /\ astcall.pc = "returned"
    /\ astcall' = [pc |-> "done", runs |-> astcall.runs,
                   max_matches |-> astcall.max_matches, res |-> astcall.res,
                   ast_matches |-> Recover(astcall.res)]
    /\ UNCHANGED <<avars, cvars, earlier, order, ops, observed, savers, fsys, pvars, request, fcall>>

PatternsNext == BeginSearch \/ SearchIdentifier \/ DisambiguateReturn

SpecPatterns == StoreInit /\ [][PatternsNext]_vars

(***************************************************************************)
(* One search request to the service, over HTTP or gRPC: the handler, the  *)
(* executor, search::execute (config, engine, cycle) and the mapping of    *)
(* the error to the response. Texts are sequences of words.                *)
(***************************************************************************)
Required == <<"symbol", "is", "required">>

\* str::contains on texts
contains(text, needle) ==
    \E i \in 1..(Len(text) - Len(needle) + 1) :
        SubSeq(text, i, i + Len(needle) - 1) = needle

NoPath == <<>>
RepoDir == <<"repo">>
Roots == {NoPath, RepoDir, <<"gone">>, <<"symbol", "is", "required">>}
CacheDirs == {NoPath, <<"cache">>, <<"readonly", "cache">>}
ExistingDirs == {RepoDir}
Uncreatable == {<<"readonly", "cache">>}

Requests ==
    [proto : {"http", "grpc"}, symbol : Symbols \cup {<<>>}, root : Roots,
     cache_dir : CacheDirs, log_dir : BOOLEAN]

Step(to, r) == [r EXCEPT !.pc = to]
Fail(r, text) == [r EXCEPT !.pc = "map", !.err = text]

Receive ==
    /\ request.pc = "idle"
    /\ \E q \in Requests :
         request' = [pc |-> IF q.proto = "http" THEN "handler" ELSE "executor",
                     req |-> q, err |-> <<>>, engine |-> FALSE, cache_written |-> FALSE,
                     cycle |-> FALSE, response |-> "none"]
    /\ UNCHANGED <<avars, cvars, earlier, order, ops, observed, savers, fsys, pvars, astcall, fcall>>

\* http.rs search: the handler's own test of the symbol
HttpSearch ==
    /\ request.pc = "handler"
    /\ request' = IF Trim(request.req.symbol) = <<>>
                  THEN [request EXCEPT !.pc = "done", !.err = Required,
                                       !.response = "400"]
                  ELSE Step("executor", request)
    /\ UNCHANGED <<avars, cvars, earlier, order, ops, observed, savers, fsys, pvars, astcall, fcall>>

\* SearchExecutor::execute up to search::execute(args)
ExecutorExecute ==
    /\ request.pc = "executor"
    /\ request' = IF Trim(request.req.symbol) = <<>>
                  THEN Fail(request, Required)
                  ELSE Step("config", request)
    /\ UNCHANGED <<avars, cvars, earlier, order, ops, observed, savers, fsys, pvars, astcall, fcall>>

\* SearchConfig::try_from_args: root.canonicalize()
TryFromArgs ==
    /\ request.pc = "config"
    /\ LET root == IF request.req.root = NoPath THEN RepoDir ELSE request.req.root
       IN request' =
            IF root \in ExistingDirs THEN Step("engine", request)
            ELSE Fail(request, <<"failed", "to", "canonicalize", "repository",
                                 "root", "path:">> \o root)
    /\ UNCHANGED <<avars, cvars, earlier, order, ops, observed, savers, fsys, pvars, astcall, fcall>>

\* SearchEngine::new: create_dir_all(cache_dir), PersistentState::load
NewEngine ==
    /\ request.pc = "engine"
    /\ LET dir == IF request.req.cache_dir = NoPath THEN RepoDir \o <<".swe-grep-cache">>
                  ELSE request.req.cache_dir
       IN request' =
            IF dir \in Uncreatable
            THEN Fail(request, <<"failed", "to", "create", "cache", "directory">> \o dir)
            ELSE [request EXCEPT !.pc = "cycle", !.engine = TRUE, !.cache_written = TRUE]
    /\ UNCHANGED <<avars, cvars, earlier, order, ops, observed, savers, fsys, pvars, astcall, fcall>>

\* engine.run_cycle(): a summary, or the error of log_summary
ServeCycle ==
    /\ request.pc = "cycle"
    /\ \E ok \in IF request.req.log_dir THEN BOOLEAN ELSE {TRUE} :
         request' =
            IF ok THEN [request EXCEPT !.pc = "map", !.cycle = TRUE]
            ELSE [request EXCEPT !.pc = "map", !.cycle = TRUE,
                     !.err = <<"failed", "to", "create", "log", "directory", "logs">>]
    /\ UNCHANGED <<avars, cvars, earlier, order, ops, observed, savers, fsys, pvars, astcall, fcall>>

\* The match on executor.execute(input).await of http.rs and the map_err of
\* grpc.rs
Respond ==
    /\ request.pc = "map"
    /\ LET invalid == contains(request.err, Required)
           http == request.req.proto = "http"
       IN request' =
            [request EXCEPT !.pc = "done",
               !.response =
                  IF request.err = <<>> THEN (IF http THEN "200" ELSE "ok")
                  ELSE IF invalid THEN (IF http THEN "400" ELSE "invalid_argument")
                  ELSE (IF http THEN "500" ELSE "internal")]
    /\ UNCHANGED <<avars, cvars, earlier, order, ops, observed, savers, fsys, pvars, astcall, fcall>>

ServiceNext ==
    \/ Receive
    \/ HttpSearch
    \/ ExecutorExecute
    \/ TryFromArgs
    \/ NewEngine
    \/ ServeCycle
    \/ Respond

SpecService == StoreInit /\ [][ServiceNext]_vars

\* Everything but fcall
nvars == <<avars, cvars, earlier, order, ops, observed, savers, fsys, pvars,
           astcall, request>>

(***************************************************************************)
(* apply_tool_flags of the service: the request's tool_flags map, taken    *)
(* in the iteration order of the HashMap, applied to the search arguments. *)
(***************************************************************************)
MaxFlags == 2      \* entries of a tool_flags map

ToAsciiLowercase(c) ==
    IF \E i \in DOMAIN UpperSeq : UpperSeq[i] = c
    THEN LowerSeq[CHOOSE i \in DOMAIN UpperSeq : UpperSeq[i] = c]
    ELSE c
to_ascii_lowercase(s) == [i \in DOMAIN s |-> ToAsciiLowercase(s[i])]

KeyFd == <<"f","d">>
KeyUseFd == <<"u","s","e","_","f","d">>
KeyDisableFd == <<"d","i","s","a","b","l","e","_","f","d">>
KeyAstGrep == <<"a","s","t","-","g","r","e","p">>
KeyAst_Grep == <<"a","s","t","_","g","r","e","p">>
KeyUseAstGrep == <<"u","s","e","_","a","s","t","_","g","r","e","p">>
KeyIndex == <<"i","n","d","e","x">>
KeyUseIndex == <<"u","s","e","_","i","n","d","e","x">>
KeyEnableIndex == <<"e","n","a","b","l","e","_","i","n","d","e","x">>
KeyRga == <<"r","g","a">>
KeyUseRga == <<"u","s","e","_","r","g","a">>
KeyEnableRga == <<"e","n","a","b","l","e","_","r","g","a">>
KeyBody == <<"b","o","d","y">>
KeyFetchBody == <<"f","e","t","c","h","_","b","o","d","y">>
KeyIncludeBody == <<"i","n","c","l","u","d","e","_","b","o","d","y">>

\* The arms of the match, by the argument each one sets
Arms ==
    [use_fd |-> {KeyFd, KeyUseFd, KeyDisableFd},
     use_ast_grep |-> {KeyAstGrep, KeyAst_Grep, KeyUseAstGrep},
     enable_index |-> {KeyIndex, KeyUseIndex, KeyEnableIndex},
     enable_rga |-> {KeyRga, KeyUseRga, KeyEnableRga},
     body |-> {KeyBody, KeyFetchBody, KeyIncludeBody}]

RECURSIVE apply_tool_flags(_, _)
apply_tool_flags(args, flags) ==
    IF flags = <<>> THEN args
    ELSE LET normalized == to_ascii_lowercase(Head(flags).key)
             set == {f \in DOMAIN Arms : normalized \in Arms[f]}
         IN apply_tool_flags(
                [f \in DOMAIN args |-> IF f \in set THEN Head(flags).value ELSE args[f]],
                Tail(flags))

\* Keys a request may send
FlagKeys ==
    {KeyFd, <<"F","D">>, KeyUseFd, KeyDisableFd, KeyAstGrep, KeyIndex, KeyRga,
     <<"B","o","d","y">>, KeyIncludeBody, <<"v","e","r","b","o","s","e">>}

FlagMaps ==
    { m \in SUBSET [key : FlagKeys, value : BOOLEAN] :
        /\ Cardinality(m) \in 1..MaxFlags
        /\ \A a, b \in m : a.key = b.key => a = b }

ArgSets == { [f \in DOMAIN Arms |-> b] : b \in BOOLEAN }

BeginFlags ==
    /\ fcall.pc = "idle"
    /\ \E args \in ArgSets, m \in FlagMaps :
         fcall' = [pc |-> "flags", args |-> args, flags |-> m]
    /\ UNCHANGED nvars

ApplyToolFlags ==
    /\ fcall.pc = "flags"
    /\ \E iter \in Orderings(fcall.flags) :
         fcall' = [pc |-> "done", args |-> fcall.args, flags |-> fcall.flags,
                   out |-> apply_tool_flags(fcall.args, iter)]
    /\ UNCHANGED nvars

FlagsNext == BeginFlags \/ ApplyToolFlags

SpecFlags == StoreInit /\ [][FlagsNext]_vars

(***************************************************************************)
(* discover's assembly of the candidates from what its four sources gave.  *)
(***************************************************************************)
Abs(paths) == Map(paths, LAMBDA f : RawPath("abs", f))

DiscoverInputs ==
    { i \in [fd : {<<>>, Abs(<<LibRs, AppSwift>>), Abs(<<GuideMd>>)},
             hints : {<<>>, <<AuthTs>>, <<AppSwift, LibRs>>},
             dirs : {<<>>, Abs(<<LibRs, AuthTs>>), Abs(<<AppSwift>>)},
             swift : {<<>>, Abs(<<PackageSwift, AppSwift>>)},
             languages : {<<>>, <<"rust">>, <<"swift">>, <<"ts">>}] :
        i.swift # <<>> => Contains(i.languages, "swift") }

BeginDiscover ==
    /\ fcall.pc = "idle"
    /\ \E i \in DiscoverInputs : fcall' = [pc |-> "discover", in |-> i]
    /\ UNCHANGED nvars

DiscoverCandidates ==
    /\ fcall.pc = "discover"
    /\ fcall' = [pc |-> "done", in |-> fcall.in,
                 candidates |-> assemble_candidates(fcall.in.fd, fcall.in.hints,
                                    fcall.in.dirs, fcall.in.swift,
                                    extensions_for_languages(fcall.in.languages))]
    /\ UNCHANGED nvars

DiscoverNext == BeginDiscover \/ DiscoverCandidates

SpecDiscover == StoreInit /\ [][DiscoverNext]_vars

(***************************************************************************)
(* QueryRewriter::build on symbols that hold regex metacharacters, and the *)
(* rewrites as ripgrep reads them: each one is handed over with -e, as a   *)
(* regular expression.                                                     *)
(***************************************************************************)
RewriteSymbols ==
    { LoginUser,
      <<"a",".","b">>,
      <<"a","|","b">>,
      <<"f","(","x",")">>,
      <<"x","+","*","?">>,
      <<"^","[","a","]","$">>,
      <<"{","}","\\">>,
      <<"u","s","e","S","t","a","t","e">>,
      <<"B","u","t","t","o","n">>,
      <<" ","f","n"," ">>,
      <<" ">> }

RewriteLanguages ==
    {<<>>, <<"rust">>, <<"ts">>, <<"swift">>, <<"rust", "typescript">>, <<"go">>}

\* What a regular expression without operators matches: a backslash makes
\* the metacharacter after it a literal; a metacharacter standing alone is
\* an operator, and so is a backslash before any other character.
RegexOperators == {"\\", ".", "+", "*", "?", "(", ")", "|", "[", "]", "{", "}", "^", "$"}

RECURSIVE ReadRegex(_)
ReadRegex(r) ==
    IF r = <<>> THEN [literal |-> TRUE, text |-> <<>>]
    ELSE IF Head(r) = "\\"
         THEN IF Len(r) >= 2 /\ r[2] \in RegexOperators
              THEN LET rest == ReadRegex(SubSeq(r, 3, Len(r)))
                   IN [literal |-> rest.literal, text |-> <<r[2]>> \o rest.text]
              ELSE [literal |-> FALSE, text |-> <<>>]
    ELSE IF Head(r) \in RegexOperators THEN [literal |-> FALSE, text |-> <<>>]
    ELSE LET rest == ReadRegex(Tail(r))
         IN [literal |-> rest.literal, text |-> <<Head(r)>> \o rest.text]

BeginBuild ==
    /\ fcall.pc = "idle"
    /\ \E s \in RewriteSymbols, l \in RewriteLanguages :
         fcall' = [pc |-> "build", symbol |-> s, languages |-> l]
    /\ UNCHANGED nvars

Build ==
    /\ fcall.pc = "build"
    /\ fcall' = [pc |-> "built", symbol |-> fcall.symbol, languages |-> fcall.languages,
                 rewrites |-> build(fcall.symbol, fcall.languages)]
    /\ UNCHANGED nvars

BuildAgain ==
    /\ fcall.pc = "built"
    /\ fcall' = [pc |-> "done", symbol |-> fcall.symbol, languages |-> fcall.languages,
                 rewrites |-> fcall.rewrites,
                 again |-> build(fcall.symbol, fcall.languages)]
    /\ UNCHANGED nvars

RewriteNext == BeginBuild \/ Build \/ BuildAgain

SpecRewrite == StoreInit /\ [][RewriteNext]_vars

(***************************************************************************)
(* Properties of run_cycle (Spec) and of the adapters (SpecAdapter).       *)
(***************************************************************************)
Returned == pc = "done"
Summarised == pc \in {"log", "done"}
Verified == pc \in {"save", "log", "done"}
Ran(tool, stage) == Contains(calls, Call(tool, stage))

\* The locals of run_cycle after a step, without the record of calls.
Locals(n) == [pc |-> n.pc, fast |-> n.fast, hits |-> n.hits, cands |-> n.cands,
              ast |-> n.ast, stats |-> n.stats]
LocalsNext == [pc |-> pc', fast |-> fast', hits |-> hits', cands |-> discover_candidates',
               ast |-> ast_matches', stats |-> stage_stats']

(***************************************************************************)
(* C1: a cycle in which the save of the hint store failed (the store is    *)
(* still dirty when the cycle ends) returns a summary.                     *)
(***************************************************************************)
C1_FailureStillReturnsSummary ==
    (Returned /\ state.dirty) => result = "ok"

(***************************************************************************)
(* C1, the rest of the statement: a stage whose tool call failed leaves    *)
(* the locals of run_cycle as the same stage does when the tool returns an *)
(* empty result, and a failed save leaves the cycle on its way to the      *)
(* summary.                                                                *)
(***************************************************************************)
C1_FailedStageActsAsEmpty ==
    [][last_call'.failed =>
         CASE pc = "start" -> LocalsNext = Locals(try_fast_path(OkEmpty))
           [] pc = "discover" ->
                \E dirs \in top_directories(state.data, 3) :
                    LocalsNext = Locals(discover(OkEmpty, dirs))
           [] pc = "probe" -> LocalsNext = Locals(probe_scoped(OkEmpty))
           [] pc = "escalate" -> LocalsNext = Locals(escalate(OkEmpty))
           [] pc = "index" ->
                \E ires \in {OkEmpty} \cup {r \in IndexResults : r.kind = "ok"} :
                    LocalsNext = Locals(index_fallback(ires, OkEmpty))
           [] pc = "rga" -> LocalsNext = Locals(rga_fallback(OkEmpty))
           [] pc = "disambiguate" ->
                \E ms \in ElapsedMs : LocalsNext = Locals(disambiguate(OkEmpty, ms))
           [] pc = "save" -> pc' = "log" /\ summary'.top_hits = verification.top_hits
           [] OTHER -> pc = "log"]_vars

(***************************************************************************)
(* C2: every run_cycle that has ended returned a summary, never an error.  *)
(***************************************************************************)
C2_AlwaysReturnsSummary ==
    Returned => result = "ok"

(***************************************************************************)
(* C3: for fd, rg and rga, a call abandoned at an await point (deadline    *)
(* expired or caller cancelled) never ends leaving its spawned child       *)
(* running without a kill having been issued.                              *)
(***************************************************************************)
C3_AbandonedChildKilled ==
    (apc = "ended" /\ adapter \in Guarded /\ ret \in {"timeout", "cancelled"})
        => ~orphan

(***************************************************************************)
(* C4: for ast-grep, a pattern run that times out or is cancelled while    *)
(* the ast-grep process is running has killed that process when it ends.   *)
(***************************************************************************)
C4_AstChildKilled ==
    (apc = "ended" /\ adapter = "ast-grep" /\ ret \in {"timeout", "cancelled"})
        => ~orphan

(***************************************************************************)
(* C5: with a literal trimmed symbol and an rg call that returns at least  *)
(* one match, the cycle takes the fast path: that rg call is its only call *)
(* (no fd, hint lookup, index, rga or ast-grep), every hit goes to verify  *)
(* as rg-global, and the summary has discover_candidates = 0, probe_hits = *)
(* the number of rg matches and disambiguate_ms = 0. With a symbol that is *)
(* not literal, or an rg call that fails or finds nothing, the cycle goes  *)
(* on with discover.                                                       *)
(***************************************************************************)
C5_FastPath ==
    /\ [][pc = "start" =>
            IF /\ is_literal_symbol(config.symbol)
               /\ ~last_call'.failed
               /\ search_union(<<>>) # <<>>
            THEN /\ fast' /\ pc' = "verify"
                 /\ Len(hits') = Len(search_union(<<>>))
                 /\ \A i \in DOMAIN hits' : hits'[i].origin = "rg-global"
            ELSE ~fast' /\ pc' = "discover"]_vars
    /\ [](fast => /\ calls = <<Call("rg", "fast")>>
                  /\ Summarised =>
                       /\ summary.stage_stats.discover_candidates = 0
                       /\ summary.stage_stats.probe_hits = Len(search_union(<<>>))
                       /\ summary.stage_stats.disambiguate_ms = 0)

C5_Witness ==
    Returned /\ fast /\ result = "ok" /\ summary.stage_stats.probe_hits > 1

(***************************************************************************)
(* C6: on the full path the retrieval stages run in the order scoped       *)
(* probe, global probe, index, rga; the scoped probe always runs and each  *)
(* later stage runs exactly when every earlier one produced no hit (and,   *)
(* for index and rga, the stage is enabled).                               *)
(***************************************************************************)
RetrievalOrder ==
    <<Call("rg", "scoped"), Call("rg", "global"), Call("index", "index"),
      Call("rg", "indexed"), Call("rga", "rga")>>

C6_StageOrder ==
    (~fast /\ pc \in {"disambiguate", "verify", "save", "log", "done"}) =>
        LET st == stage_stats
        IN /\ Ran("rg", "scoped")
           /\ Ran("rg", "global") <=> st.probe_hits = 0
           /\ Ran("index", "index") <=>
                (st.probe_hits = 0 /\ st.escalate_hits = 0 /\ config.use_index)
           /\ Ran("rg", "indexed") => Ran("index", "index")
           /\ Ran("rga", "rga") <=>
                (/\ st.probe_hits = 0 /\ st.escalate_hits = 0
                 /\ st.index_probe_hits = 0 /\ config.use_rga)
           /\ SelectSeq(calls, LAMBDA c : Contains(RetrievalOrder, c))
                = SelectSeq(RetrievalOrder, LAMBDA c : Contains(calls, c))

C6_Witness ==
    /\ Returned /\ ~fast
    /\ Ran("rg", "indexed") /\ Ran("rga", "rga")
    /\ stage_stats.rga_hits > 0

(***************************************************************************)
(* C7: with a symbol that is not literal and occurs in the tree, and an    *)
(* empty discover set, the scoped probe reports probe_hits = 0.            *)
(***************************************************************************)
C7_EmptyScopeFindsNothing ==
    (/\ Summarised /\ ~fast
     /\ ~is_literal_symbol(config.symbol)
     /\ tree.rg # <<>>
     /\ summary.fd_candidates = <<>>) => summary.stage_stats.probe_hits = 0

(***************************************************************************)
(* C8, as stated: for symbol login_user with language rust, a tree whose   *)
(* src/lib.rs defines it and working rg and ast-grep, the first top hit is *)
(* in src/lib.rs with origin ast-grep, and ast_matches >= 1.               *)
(***************************************************************************)
LoginUserRequest ==
    /\ config.symbol = LoginUser
    /\ config.language_tokens = <<"rust">>
    /\ config.use_ast
    /\ Contains(search_union(<<>>), [path |-> RawPath("dot", LibRs),
                                     line_number |-> DefLine.line_number,
                                     lines |-> DefLine.lines])
    /\ tree.ast # <<>>

UnpromotedScore(h) ==
    h.score + (IF h.path \in Range(VerifyFd) THEN 20 ELSE 0)
            + (CASE h.origin = "rg-global" -> 0 - 5
                 [] h.origin = "rg-indexed" -> 10
                 [] h.origin = "rga" -> 0 - 10
                 [] OTHER -> 0)

AstKeys == {<<m.path.file, m.line + 1>> : m \in Range(ast_matches)}

C9_AstPromotion ==
    Verified =>
        \A i \in DOMAIN verification.retained :
            LET r == verification.retained[i]
            IN <<r.path, r.line>> \in AstKeys =>
                 /\ r.origin = "ast-grep"
                 /\ \E j \in DOMAIN hits :
                       /\ hits[j].path = r.path /\ hits[j].line = r.line
                       /\ r.score = UnpromotedScore(hits[j]) + 50

C9_Witness ==
    /\ Verified
    /\ \E i \in DOMAIN verification.retained :
          /\ <<verification.retained[i].path, verification.retained[i].line>> \in AstKeys
          /\ verification.retained[i].score = 170

(***************************************************************************)
(* C10: no two top hits share (path, line); of the raw hits that share a   *)
(* (path, line), the retained one has the highest adjusted score and, of   *)
(* those with that score, is the first observed.                           *)
(***************************************************************************)
AdjustedScore(h) ==
    UnpromotedScore(h) + (IF <<h.path, h.line>> \in AstKeys THEN 50 ELSE 0)

C10_HitIdentity ==
    Verified =>
        /\ \A i, j \in DOMAIN verification.top_hits :
              (/\ verification.top_hits[i].path = verification.top_hits[j].path
               /\ verification.top_hits[i].line = verification.top_hits[j].line) => i = j
        /\ \A i \in DOMAIN verification.retained :
              LET r == verification.retained[i]
                  same == {j \in DOMAIN hits :
                             hits[j].path = r.path /\ hits[j].line = r.line}
                  best == {j \in same :
                             \A k \in same : AdjustedScore(hits[j]) >= AdjustedScore(hits[k])}
                  first == CHOOSE j \in best : \A k \in best : j <= k
              IN /\ same # {}
                 /\ r.score = AdjustedScore(hits[first])
                 /\ r.snippet = hits[first].snippet

C10_Witness ==
    /\ Verified
    /\ \E i, j \in DOMAIN hits :
          i < j /\ hits[i].path = hits[j].path /\ hits[i].line = hits[j].line
    /\ Len(verification.retained) > 0

(***************************************************************************)
(* C11: in every summary, top_hits is the first min(5, deduped) hits of    *)
(* the retained list, which is ordered by non-increasing score; deduped is *)
(* the number of retained hits; next_actions has one "inspect path:line"   *)
(* entry per top hit, in the order of top_hits.                            *)
(***************************************************************************)
C11_TopHitsOfSummary ==
    Summarised =>
        LET r == verification.retained
            n == IF Len(r) < 5 THEN Len(r) ELSE 5
        IN /\ \A i, j \in DOMAIN r : i < j => r[i].score >= r[j].score
           /\ summary.deduped = Len(r)
           /\ Len(summary.top_hits) = n
           /\ \A i \in 1..n :
                 /\ summary.top_hits[i].path = r[i].path
                 /\ summary.top_hits[i].line = r[i].line
                 /\ summary.top_hits[i].score = r[i].score
                 /\ summary.top_hits[i].origin = r[i].origin
           /\ Len(summary.next_actions) = n
           /\ \A i \in 1..n :
                 summary.next_actions[i]
                     = <<"inspect", summary.top_hits[i].path, summary.top_hits[i].line>>

C11_Witness ==
    /\ Summarised
    /\ Len(verification.retained) > 5
    /\ verification.retained[1].score > verification.retained[2].score

(***************************************************************************)
(* C12: the top hits of a cycle are determined by the request, the hint    *)
(* store and the tool outputs: whatever the iteration order of the dedup   *)
(* map, verify gives the same top_hits sequence.                           *)
(***************************************************************************)
C12_RankingReproducible ==
    pc = "verify" =>
        Cardinality({ Map(Take(retain_new(dedup_cache, sorted), TopN), TopHit) :
                        sorted \in sorted_values(merge(hits, ast_set(VerifyAst),
                                                       Range(VerifyFd), EmptyMap)) }) = 1

(***************************************************************************)
(* C16: every (path, line) in the DedupCache was among the top hits of a   *)
(* summary of the engine (here: of its first cycle).                       *)
(***************************************************************************)
C16_CacheHoldsOnlyReturned ==
    Verified =>
        dedup_cache \subseteq
            {<<verification.top_hits[i].path, verification.top_hits[i].line>> :
                i \in DOMAIN verification.top_hits}

(***************************************************************************)
(* C13: over run_cycle calls on one engine, a (path, line) retained by an  *)
(* earlier cycle is never among the retained hits, the top hits or the     *)
(* deduped count of a later cycle, and the DedupCache only grows.          *)
(***************************************************************************)
RetainedKeys == {<<h.path, h.line>> : h \in Range(verification.retained)}
TopKeys == {<<t.path, t.line>> : t \in Range(verification.top_hits)}

C13_NoRepeatResults ==
    /\ [](Verified =>
            /\ \A i \in DOMAIN earlier :
                  /\ earlier[i].retained \cap RetainedKeys = {}
                  /\ earlier[i].retained \cap TopKeys = {}
                  /\ earlier[i].retained \subseteq dedup_cache
            /\ verification.dedup_count = Cardinality(RetainedKeys)
            /\ RetainedKeys \subseteq dedup_cache)
    /\ [][dedup_cache \subseteq dedup_cache']_vars

C13_Witness ==
    /\ Verified
    /\ Len(earlier) = 1
    /\ \E i \in DOMAIN hits : <<hits[i].path, hits[i].line>> \in earlier[1].retained

(***************************************************************************)
(* C14: on one engine over an unchanged tree, with rg working in both      *)
(* cycles and fd not used, the hits retained by the second run_cycle are a *)
(* subset of the hits retained by the first.                               *)
(***************************************************************************)
\* The rg calls of a cycle all returned what rg prints for their scope.
RgWorked(c) ==
    \/ c.fast
    \/ /\ ~is_literal_symbol(config.symbol)
       /\ c.stats.probe_hits = Len(search_union(c.cands))
       /\ c.stats.probe_hits = 0 => c.stats.escalate_hits = Len(search_union(<<>>))

C14_SecondIsSubset ==
    (/\ Verified
     /\ Len(earlier) = 1
     /\ ~config.use_fd
     /\ RgWorked(earlier[1])
     /\ RgWorked([fast |-> fast, stats |-> stage_stats, cands |-> discover_candidates]))
        => RetainedKeys \subseteq earlier[1].retained

(***************************************************************************)
(* C15: of two successive execute calls with the same arguments on an      *)
(* unchanged tree, the second returns no top hit that the first returned.  *)
(***************************************************************************)
C15_SecondExecuteReturnsNothingOld ==
    (Summarised /\ Len(earlier) = 1 /\ earlier[1].top # {})
        => {<<t.path, t.line>> : t \in Range(summary.top_hits)} \cap earlier[1].top = {}

(***************************************************************************)
(* C18: observe with no hits leaves the store's data and dirty flag as     *)
(* they were; save writes nothing when the store is not dirty and clears   *)
(* dirty after a write that succeeded; a cycle that retains no hit on a    *)
(* clean store neither creates nor modifies state.json.                    *)
(***************************************************************************)
C18_DirtySaveProtocol ==
    /\ [][(pc = "verify" /\ verification'.dedup_count = 0) => state' = state]_vars
    /\ [][(pc = "save" /\ ~state.dirty) => (disk' = disk /\ state' = state)]_vars
    /\ [][(pc = "save" /\ state.dirty) =>
            IF last_call'.failed THEN state' = state /\ disk' = disk
            ELSE ~state'.dirty /\ state'.data = state.data /\ disk' \in to_json(state.data)]_vars
    /\ [][disk' # disk => verification.dedup_count > 0]_vars

C18_Witness ==
    /\ Returned
    /\ result = "ok"
    /\ "retained" \in DOMAIN verification
    /\ verification.retained = <<>>
    /\ ~state.dirty
    /\ disk = NoFile

(***************************************************************************)
(* C17: after any sequence of observe calls on a store that began empty,   *)
(* every symbol's hint list has at most 10 entries and no path twice; an   *)
(* observe appends only paths of its first 10 hits that the list did not   *)
(* have, and leaves the entries the list had in their order.               *)
(***************************************************************************)
LastOp == ops[Len(ops)]
HintList(data, symbol) == Get(data.symbol_hits, symbol, <<>>)

C17_HintListInvariant ==
    /\ \A s \in DOMAIN state.data.symbol_hits :
          LET list == state.data.symbol_hits[s]
          IN /\ Len(list) <= 10
             /\ \A i, j \in DOMAIN list : list[i] = list[j] => i = j
    /\ (ops # <<>> /\ LastOp.op = "observe") =>
          LET old == HintList(LastOp.before.data, LastOp.symbol)
              new == HintList(state.data, LastOp.symbol)
              firstTen == {LastOp.hits[i].path : i \in DOMAIN LastOp.hits \cap 1..10}
          IN /\ Len(old) <= Len(new)
             /\ SubSeq(new, 1, Len(old)) = old
             /\ \A i \in Len(old) + 1 .. Len(new) :
                   new[i] \in firstTen /\ ~Contains(old, new[i])
             /\ \A s \in StoreSymbols \ {LastOp.symbol} :
                   HintList(state.data, s) = HintList(LastOp.before.data, s)

\* An observe of more than ten hits on a list that had entries: the list is
\* cut at ten, and a path of the first ten hits did not fit.
C17_Witness ==
    /\ ops # <<>>
    /\ LastOp.op = "observe"
    /\ Len(LastOp.hits) > 10
    /\ HintList(LastOp.before.data, LastOp.symbol) # <<>>
    /\ Len(HintList(state.data, LastOp.symbol)) = 10
    /\ \E i \in 1..10 : ~Contains(HintList(state.data, LastOp.symbol), LastOp.hits[i].path)
    /\ \E i \in 1..10 : /\ Contains(HintList(state.data, LastOp.symbol), LastOp.hits[i].path)
                        /\ ~Contains(HintList(LastOp.before.data, LastOp.symbol),
                                     LastOp.hits[i].path)

(***************************************************************************)
(* C20: a store that is saved and then loaded answers hints_for_symbol(s)  *)
(* and top_directories(k) as the store did before the save, for every s    *)
(* and k, also when directories have equal scores.                         *)
(***************************************************************************)
C20_RoundTrip ==
    (/\ Len(ops) = 2
     /\ ops[1].op = "save"
     /\ ops[1].ok
     /\ ops[2].op = "load")
        => ops[2].answers = ops[1].answers

(***************************************************************************)
(* C19: while two engines of one cache directory save, in any interleaving *)
(* of their create, write and rename steps, state.json is absent or holds  *)
(* the complete store of exactly one engine's save; once both saves have   *)
(* ended it holds the store of the save that ended last.                   *)
(***************************************************************************)
SaveEnded(e) == savers[e].pc \in {"saved", "failed"}

C19_StateJsonWhole ==
    /\ fsys.json = 0
       \/ \E e \in Engines : /\ savers[e].len > 0
                             /\ fsys.inodes[fsys.json] = Text(e, savers[e].len)
    /\ (\A e \in Engines : SaveEnded(e)) =>
          /\ fsys.json # 0
          /\ fsys.last \in Engines
          /\ fsys.inodes[fsys.json] = Text(fsys.last, savers[fsys.last].len)

(***************************************************************************)
(* C21: top_directories(k) answers with the k highest-scoring directories  *)
(* among the recorded ones that exist, highest first: min(k, number of     *)
(* recorded directories that exist) entries, also when a recorded          *)
(* directory of higher score no longer exists.                             *)
(***************************************************************************)
C21_TopExistingDirectories ==
    ops # <<>> =>
      \A k \in 0..MaxLimit :
        LET scores == state.data.directory_scores
            existing == {d \in DOMAIN scores : IsDir(d)}
            r == LastOp.answers.dirs[k]
        IN /\ Len(r) = Min(k, Cardinality(existing))
           /\ Range(r) \subseteq existing
           /\ \A i, j \in DOMAIN r : i < j => scores[r[i]] >= scores[r[j]]
           /\ \A d \in existing \ Range(r) : \A i \in DOMAIN r : scores[r[i]] >= scores[d]

(***************************************************************************)
(* C22: in every cycle the precision, density, cluster_score and reward    *)
(* that compute_metrics gives lie in [0, 1], whatever the retained hits,   *)
(* the ast-grep match set and the number of fd candidates.                 *)
(***************************************************************************)
Measured == Verified /\ "metrics" \in DOMAIN verification
InUnit(x) == AtMost(Zero, x) /\ AtMost(x, One)

C22_MetricsInUnitInterval ==
    Measured => /\ InUnit(verification.metrics.precision)
                /\ InUnit(verification.metrics.density)
                /\ InUnit(verification.metrics.cluster_score)
                /\ InUnit(verification.metrics.reward)

(***************************************************************************)
(* C23: the reward of a cycle is 0 exactly when the cycle retained no hit. *)
(***************************************************************************)
C23_RewardZeroIffNoHit ==
    Measured => (verification.metrics.reward.n = 0 <=> verification.retained = <<>>)

\* Both cases: a second cycle that retained nothing after a first that
\* retained hits none of which ast-grep matched.
C23_Witness ==
    /\ Measured
    /\ verification.retained = <<>>
    /\ hits # <<>>
    /\ Len(earlier) = 1
    /\ earlier[1].retained # {}
    /\ earlier[1].stats.ast_matches = 0

(***************************************************************************)
(* C24: verify adds the +0.2 bonus to a hit only when fd gave the hit's    *)
(* path as a candidate; a path that is a candidate only through the hint   *)
(* store earns nothing. With fd switched off no hit carries the bonus.     *)
(***************************************************************************)
\* The score of a raw hit without the fd bonus, in hundredths.
ScoreWithoutBonus(h) ==
    h.score + (CASE h.origin = "rg-global" -> 0 - 5
                 [] h.origin = "rg-indexed" -> 10
                 [] h.origin = "rga" -> 0 - 10
                 [] OTHER -> 0)
            + (IF <<h.path, h.line>> \in AstKeys THEN 50 ELSE 0)

C24_BonusOnlyForFdCandidates ==
    (Measured /\ ~config.use_fd) =>
        \A i \in DOMAIN verification.retained :
            LET r == verification.retained[i]
            IN \E j \in DOMAIN hits :
                  /\ hits[j].path = r.path
                  /\ hits[j].line = r.line
                  /\ r.score = ScoreWithoutBonus(hits[j])

(***************************************************************************)
(* C25: within one cycle at most one tool process exists at any time: a    *)
(* stage's adapter call is over, and its child gone, before the next       *)
(* stage's call begins.                                                    *)
(***************************************************************************)
LiveProcesses == stray + (IF proc = "running" THEN 1 ELSE 0)

C25_OneProcessAtATime == LiveProcesses <= 1

(***************************************************************************)
(* C26: whatever the child prints, the list an adapter returns has at most *)
(* max_matches items.                                                      *)
(***************************************************************************)
C26_OutputCap == (apc = "ended" /\ ret = "ok") => matches <= cap

(***************************************************************************)
(* C27: an adapter call that saw its child's exit status succeeds when the *)
(* status is 0 or 1 and otherwise fails with an error that carries the     *)
(* captured stderr, at most about 1 KiB of it.                             *)
(***************************************************************************)
C27_ExitStatusPolicy ==
    (apc = "ended" /\ message.kind # "none") =>
        IF status \in {0, 1}
        THEN ret = "ok"
        ELSE /\ ret = "err"
             /\ message.kind = "status"
             /\ stderr # <<>> => message.stderr_len > 0
             /\ message.stderr_len <= 2 * StderrLimit

(***************************************************************************)
(* C28: when rg runs into the timeout on every invocation, the cycle still *)
(* returns, rg's stages contribute no hit, and at most two invocations ran *)
(* to their deadline, so that the cycle took at most about twice the       *)
(* timeout.                                                                *)
(***************************************************************************)
Deadlines(tool) == {i \in DOMAIN invoked : invoked[i].tool = tool /\ invoked[i].kind = "error"}
AlwaysBlocked(tool) ==
    /\ \E i \in DOMAIN invoked : invoked[i].tool = tool
    /\ \A i \in DOMAIN invoked : invoked[i].tool = tool => invoked[i].kind = "error"

C28_TimeoutHonored ==
    (Returned /\ AlwaysBlocked("rg")) =>
        /\ \A i \in DOMAIN hits : hits[i].origin \notin {"rg-scoped", "rg-global", "rg-indexed"}
        /\ Cardinality(Deadlines("rg")) <= 2

(***************************************************************************)
(* C29: a pattern ast-grep rejects for an ERROR node gives the pattern     *)
(* error, and it costs that pattern alone: when no run of the call fails   *)
(* in another way, disambiguate gets what the other patterns match.        *)
(***************************************************************************)
\* The loop that goes on to the next pattern when one has failed.
RECURSIVE search_patterns_skipping(_, _, _)
search_patterns_skipping(runs, aggregated, max_matches) ==
    IF runs = <<>> \/ Len(aggregated) >= max_matches THEN Result("ok", aggregated)
    ELSE LET r == run_pattern(Head(runs), max_matches - Len(aggregated))
         IN search_patterns_skipping(Tail(runs),
                Take(DedupSeq(aggregated \o r.items), max_matches), max_matches)

PatternRejected(run) == \E i \in DOMAIN run.stderr : run.stderr[i].error_node

C29_OnlyTheBadPatternIsSkipped ==
    (/\ astcall.pc = "done"
     /\ \E i \in DOMAIN astcall.runs : PatternRejected(astcall.runs[i])
     /\ \A i \in DOMAIN astcall.runs :
           PatternRejected(astcall.runs[i]) \/ astcall.runs[i].status \in {0, 1})
    => astcall.ast_matches =
         search_patterns_skipping(astcall.runs, <<>>, astcall.max_matches).items

(***************************************************************************)
(* C30: a request with a blank symbol is answered 400 (invalid argument)   *)
(* with no engine built, no cycle run and no cache directory written; a    *)
(* request that fails for any other reason is answered 500 (internal).     *)
(***************************************************************************)
Rejected == request.response \in {"400", "invalid_argument"}

C30_BlankSymbolIsTheOnlyRejection ==
    request.pc = "done" =>
        IF Trim(request.req.symbol) = <<>>
        THEN Rejected /\ ~request.engine /\ ~request.cycle /\ ~request.cache_written
        ELSE request.err # <<>> => request.response \in {"500", "internal"}

(***************************************************************************)
(* C31: a search whose symbol is empty or blank is a configuration error:  *)
(* execute ends with an error and no cycle runs, so no summary is built.   *)
(***************************************************************************)
C31_EmptySymbolIsAnError == Trim(config.symbol) = <<>> => ~Summarised

(***************************************************************************)
(* C32: apply_tool_flags changes an argument only for a key that is, in    *)
(* any case, fd, ast-grep, ast_grep, index, rga or body, and then to that  *)
(* key's value; every other key leaves all arguments as they were.         *)
(***************************************************************************)
Recognised ==
    [use_fd |-> {KeyFd}, use_ast_grep |-> {KeyAstGrep, KeyAst_Grep},
     enable_index |-> {KeyIndex}, enable_rga |-> {KeyRga}, body |-> {KeyBody}]

C32_OnlyRecognisedKeys ==
    fcall.pc = "done" /\ "flags" \in DOMAIN fcall =>
        \A f \in DOMAIN fcall.args :
            fcall.out[f] # fcall.args[f] =>
                \E e \in fcall.flags :
                    /\ to_ascii_lowercase(e.key) \in Recognised[f]
                    /\ e.value = fcall.out[f]

(***************************************************************************)
(* C33: the candidates of discover hold no path twice, hold only paths     *)
(* that pass the extension filter, and are in the order of their origins:  *)
(* fd, symbol hints, hinted directories, swift hints, each path at the     *)
(* place of the first origin that gave it.                                 *)
(***************************************************************************)
Discovered == fcall.pc = "done" /\ "candidates" \in DOMAIN fcall

OriginRank(path) ==
    LET i == fcall.in
    IN CASE path \in {normalize_path(r) : r \in Range(i.fd)} -> 1
         [] path \in Range(i.hints) -> 2
         [] path \in {normalize_path(r) : r \in Range(i.dirs)} -> 3
         [] OTHER -> 4

C33_DiscoverOrder ==
    Discovered =>
        LET c == fcall.candidates
            extensions == extensions_for_languages(fcall.in.languages)
        IN /\ \A i, j \in DOMAIN c : i # j => c[i] # c[j]
           /\ \A i \in DOMAIN c : passes_extension_filter(c[i], extensions)
           /\ \A i, j \in DOMAIN c : i < j => OriginRank(c[i]) <= OriginRank(c[j])

C33_Witness ==
    /\ Discovered
    /\ fcall.in.languages = <<>>
    /\ fcall.in.fd = Abs(<<LibRs, AppSwift>>)
    /\ fcall.in.hints = <<AppSwift, LibRs>>
    /\ fcall.in.dirs = Abs(<<LibRs, AuthTs>>)
    /\ fcall.candidates = <<LibRs, AppSwift, AuthTs>>

(***************************************************************************)
(* C34: every rewrite of build is a text with each of the 14               *)
(* metacharacters escaped by one backslash and nothing else changed, so    *)
(* that as a regular expression it matches that text and only it; the      *)
(* text holds the trimmed symbol, the first rewrite is the symbol itself;  *)
(* no rewrite is listed twice; a second build gives the same list.         *)
(***************************************************************************)
Built == fcall.pc \in {"built", "done"} /\ "rewrites" \in DOMAIN fcall

C35_OneRecordPerCycle ==
    /\ [](~config.log_dir => log = <<>>)
    /\ [][(pc = "log" /\ pc' = "done" /\ result' = "ok" /\ config.log_dir) =>
            /\ Len(log') = Len(log) + 1
            /\ SubSeq(log', 1, Len(log)) = log
            /\ log'[Len(log')].symbol = config.symbol]_vars

(***************************************************************************)
(* C36: every top hit of a summary carries a context window around its     *)
(* line: the fields expanded_snippet, context_start, context_end and       *)
(* auto_expanded_context are present, and the window holds the hit line    *)
(* (context_start <= line <= context_end).  TopHit, as search.rs declares  *)
(* it, has the fields path, line, score and origin (with the label and the *)
(* optional raw snippet) and no window at all: the context values of the   *)
(* command line are never read by run_cycle.                               *)
(***************************************************************************)
WindowFields == {"expanded_snippet", "context_start", "context_end", "auto_expanded_context"}

C36_ContextWindow ==
    Summarised =>
        \A i \in DOMAIN summary.top_hits :
            LET t == summary.top_hits[i]
            IN  /\ WindowFields \subseteq DOMAIN t
                /\ t.context_start <= t.line
                /\ t.line <= t.context_end

(***************************************************************************)
(* C37: once the rg or rga adapter holds max_matches items and has left    *)
(* its read loop while the child is still running, the child has been sent *)
(* a kill, and the call does not end in the timeout error that discards    *)
(* the collected matches.  (Only the break of the read loop leads to the   *)
(* wait with a running child: end of input needs an exited child.)         *)
(***************************************************************************)
AtCap == adapter \in {"rg", "rga"} /\ apc = "wait" /\ matches >= cap /\ proc = "running"

C37_CapKillsChild ==
    /\ [](AtCap => killed)
    /\ [][AtCap => ret' # "timeout"]_vars

(***************************************************************************)
(* C38: every hit of the cycle whose origin is rg-scoped has a path of the *)
(* cycle's discover candidate set, whatever discover returned, the empty   *)
(* set included.                                                           *)
(***************************************************************************)
C38_ScopedHitsAreCandidates ==
    \A i \in DOMAIN hits :
        hits[i].origin = "rg-scoped" => hits[i].path \in Range(discover_candidates)

(***************************************************************************)
(* C39: in every summary the hits that entered verify come from one        *)
(* retrieval stage: they all have the same origin, the top hits that were  *)
(* not promoted to ast-grep carry one origin label, and the stage          *)
(* statistics agree: escalate_hits > 0 implies probe_hits = 0, and         *)
(* rga_hits > 0 implies probe_hits = 0 and escalate_hits = 0.              *)
(***************************************************************************)
C39_OneStagePerCycle ==
    Summarised =>
        /\ \A i, j \in DOMAIN hits : hits[i].origin = hits[j].origin
        /\ Cardinality({t.origin : t \in Range(summary.top_hits)} \ {"ast-grep"}) <= 1
        /\ summary.stage_stats.escalate_hits > 0 => summary.stage_stats.probe_hits = 0
        /\ summary.stage_stats.rga_hits > 0 =>
              /\ summary.stage_stats.probe_hits = 0
              /\ summary.stage_stats.escalate_hits = 0

\* A cycle whose scoped probe found nothing and whose escalation found two
\* hits, one of them promoted to ast-grep.
C39_Witness ==
    /\ Summarised /\ ~fast
    /\ summary.stage_stats.escalate_hits > 1
    /\ \E t \in Range(summary.top_hits) : t.origin = "ast-grep"
    /\ \E t \in Range(summary.top_hits) : t.origin = "rg-global"

(***************************************************************************)
(* C40: an observe for a symbol whose hint list already holds 10 paths     *)
(* leaves that list as it was: no observed path is admitted, no listed     *)
(* path is evicted or moved.                                               *)
(***************************************************************************)
C40_FullListIsFrozen ==
    (/\ ops # <<>>
     /\ LastOp.op = "observe"
     /\ Len(HintList(LastOp.before.data, LastOp.symbol)) = 10) =>
        HintList(state.data, LastOp.symbol) = HintList(LastOp.before.data, LastOp.symbol)

\* An observe on a full list with a hit whose path the list does not have;
\* the directory counters moved.
C40_Witness ==
    /\ ops # <<>>
    /\ LastOp.op = "observe"
    /\ Len(HintList(LastOp.before.data, LastOp.symbol)) = 10
    /\ \E i \in DOMAIN LastOp.hits :
          ~Contains(HintList(LastOp.before.data, LastOp.symbol), LastOp.hits[i].path)
    /\ state.data.directory_scores # LastOp.before.data.directory_scores

====
